---- MODULE Spec2Model ----
(***************************************************************************)
(* Transcript discovery pipeline of youtube-transcriber.                   *)
(*                                                                         *)
(* Spec          the TranscriptListFetcher state machine: one API instance *)
(*               (one shared HTTP client, one proxy configuration) serving *)
(*               list(videoId) calls; every HTTP response is an input.     *)
(* ClassifySpec  the availability classifier (assertPlayability) as a pure *)
(*               function over playability objects and video ids.          *)
(*                                                                         *)
(* Modelling conventions                                                   *)
(*  - A JavaScript object is a record whose DOMAIN is the set of keys that *)
(*    are present; an absent key reads as undefined.                       *)
(*  - A string the code inspects (reason, video id) is the sequence of its *)
(*    fragments; === is equality of sequences, startsWith looks at the     *)
(*    first fragment, includes looks for a fragment.                       *)
(*  - A function that may throw returns Return(v) or Throw(e).             *)
(***************************************************************************)
EXTENDS Integers, Sequences, FiniteSets, TLC

VARIABLES
    proxyConfig,   \* TranscriptListFetcher.proxyConfig (fixed at construction)
    cookie,        \* httpClient.defaults.headers.common.Cookie
    pc,            \* where the pending list(videoId) call is suspended
    videoId,       \* argument of the pending call
    tryNumber,     \* argument tryNumber of the running fetchCaptionsJson frame
    html,          \* the last watch page returned by fetchHtml
    fetches,       \* httpClient.get calls issued by the running attempt
    attempts,      \* discovery sequences started by the pending call
    caught,        \* errors caught by fetchCaptionsJson, one per failed attempt
    outcome,       \* what list(videoId) delivered to its caller
    calls,         \* list() calls started on this instance
    clsInput,      \* ClassifySpec: the classifier's arguments
    clsResult,     \* ClassifySpec: what the classifier did with them
    lsCaptions,    \* ListSpec: the captionsJson given to TranscriptList.build
    lsList,        \* ListSpec: the TranscriptList that build returned
    lsFind,        \* ListSpec: a find call on the list and what it did
    lsTranslate,   \* ListSpec: a translate call on the found track and what it did
    lsAgain,       \* ListSpec: a translate call on the translated track
    psInput,       \* ParseSpec: the text elements and preserveFormatting
    psResult,      \* ParseSpec: the snippets parse returned
    tfInput,       \* TrackSpec: the Transcript fetched and preserveFormatting
    tfGets,        \* TrackSpec: httpClient.get calls issued by Transcript.fetch
    tfResult,      \* TrackSpec: what Transcript.fetch delivered
    jvInput,       \* JsVarSpec: the page text given to JsVarParser.parse
    jvResult,      \* JsVarSpec: what JsVarParser.parse did with it
    cliArgs,       \* CliSpec: parsedArgs of the run
    cliPc,         \* CliSpec: where run() is suspended
    cliIndex,      \* CliSpec: videos the loop has finished
    cliInFlight,   \* CliSpec: network operations run() is awaiting
    cliTrack,      \* CliSpec: the Transcript whose fetch is awaited
    cliTranscripts, \* CliSpec: the array transcripts
    cliExceptions, \* CliSpec: the array exceptions
    cliOutput,      \* CliSpec: what run() returned
    fmInput,        \* FormatSpec: the FetchedTranscript
    fmRaw,          \* FormatSpec: what toRawData() returned
    fmIterated,     \* FormatSpec: what iterating the transcript yielded
    fmSrt,          \* FormatSpec: what SRTFormatter.formatTranscript returned
    rnError,        \* RenderSpec: the error object
    rnMessage,      \* RenderSpec: the error's message property
    rnAnnotated,    \* RenderSpec: withProxyConfig was called on the error
    rnShown,        \* RenderSpec: the message and string form the user was shown
    btArgs,         \* BatchSpec: videoIds and continueAfterError
    btPc,           \* BatchSpec: where getTranscripts is suspended
    btData,         \* BatchSpec: the data map
    btUnretrievable,  \* BatchSpec: unretrievableVideos
    btAttempted,    \* BatchSpec: video ids api.fetch was called with
    btSettled,      \* BatchSpec: what each api.fetch call yielded
    btOutcome      \* BatchSpec: what getTranscripts delivered

vars == <<proxyConfig, cookie, pc, videoId, tryNumber, html, fetches, attempts,
          caught, outcome, calls, clsInput, clsResult,
          lsCaptions, lsList, lsFind, lsTranslate, lsAgain,
          psInput, psResult, tfInput, tfGets, tfResult,
          jvInput, jvResult,
          cliArgs, cliPc, cliIndex, cliInFlight, cliTrack, cliTranscripts,
          cliExceptions, cliOutput,
          fmInput, fmRaw, fmIterated, fmSrt,
          rnError, rnMessage, rnAnnotated, rnShown,
          btArgs, btPc, btData, btUnretrievable, btAttempted, btSettled, btOutcome>>

fetcherVars == <<proxyConfig, cookie, pc, videoId, tryNumber, html, fetches,
                 attempts, caught, outcome, calls>>

classifyVars == <<clsInput, clsResult>>

listVars == <<lsCaptions, lsList, lsFind, lsTranslate, lsAgain>>

\* the variables of the pure-function specifications
parseVars == <<psInput, psResult>>

trackVars == <<tfInput, tfGets, tfResult>>

pureVars == <<classifyVars, listVars, parseVars, trackVars>>

jsVarVars == <<jvInput, jvResult>>

\* the variables of the specifications that follow TrackSpec
cliVars == <<cliArgs, cliPc, cliIndex, cliInFlight, cliTrack, cliTranscripts,
            cliExceptions, cliOutput>>

formatVars == <<fmInput, fmRaw, fmIterated, fmSrt>>

renderVars == <<rnError, rnMessage, rnAnnotated, rnShown>>

batchVars == <<btArgs, btPc, btData, btUnretrievable, btAttempted, btSettled, btOutcome>>

moreVars == <<jsVarVars, cliVars, formatVars, renderVars, batchVars>>

(***************************************************************************)
(* Bounds                                                                  *)
(***************************************************************************)
MaxRetries == 3      \* largest retriesWhenBlocked given to a proxy config
MaxCalls == 2        \* list() calls made on one API instance
MaxReasonLen == 2    \* fragments in a playability reason string
MaxRuns == 2         \* sub-reason runs on the error screen
MaxTracks == 2       \* caption tracks of a video
MaxCodes == 2        \* language codes in a preference list
MaxFragments == 3    \* fragments in the text content of an element
MaxElements == 3     \* text elements of a document with several lines
MaxPieces == 2       \* pieces between the quotes of a JSON string
MaxVideos == 2       \* video ids of one run or one batch
MaxSnippets == 3     \* snippets of a fetched transcript

(***************************************************************************)
(* JavaScript values                                                       *)
(***************************************************************************)
Has(obj, key) == key \in DOMAIN obj

\* the property names every plain object inherits from Object.prototype
ObjectPrototypeNames ==
    {"constructor", "toString", "toLocaleString", "valueOf", "hasOwnProperty",
     "isPrototypeOf", "propertyIsEnumerable", "__proto__", "__defineGetter__",
     "__defineSetter__", "__lookupGetter__", "__lookupSetter__"}

\* the value of an inherited property: a function of Object.prototype
\* (Object itself for "constructor"), Object.prototype for "__proto__"
ObjectPrototypeMember(key) == [inherited |-> key]

\* the internal slot [[Prototype]] of a plain object: the record of an
\* object has it once an assignment to "__proto__" has replaced
\* Object.prototype by an instance of Transcript
PrototypeSlot == "[[Prototype]]"

\* Object.keys(obj)
OwnKeys(obj) == DOMAIN obj \ {PrototypeSlot}

\* the fields the Transcript constructor assigns that the records of the
\* model leave out
TranscriptPrivateNames == {"httpClient", "translationLanguagesDict"}

\* the members of Transcript.prototype
TranscriptPrototypeNames ==
    {"constructor", "fetch", "toString", "isTranslatable", "translate"}

\* key in obj, for a plain object: its own properties and those of its
\* prototype chain (Object.prototype, or the Transcript in the slot, then
\* Transcript.prototype, then Object.prototype)
In(key, obj) ==
    \/ key \in OwnKeys(obj)
    \/ key \in ObjectPrototypeNames
    \/ /\ Has(obj, PrototypeSlot)
       /\ \/ key \in DOMAIN obj[PrototypeSlot]
          \/ key \in TranscriptPrivateNames
          \/ key \in TranscriptPrototypeNames

\* a value read through the prototype chain under the given name: the
\* value of a field of the prototype, or a function
InheritedField(key, value) == [inherited |-> key, value |-> value]

\* obj[key], for a plain object and a key that is in it; "__proto__" reads
\* the prototype itself, and the getter isTranslatable runs on the fields
\* the object inherits
Get(obj, key) ==
    IF key \in OwnKeys(obj)
    THEN obj[key]
    ELSE IF ~Has(obj, PrototypeSlot)
    THEN ObjectPrototypeMember(key)
    ELSE IF key = "__proto__"
    THEN obj[PrototypeSlot]
    ELSE IF key \in DOMAIN obj[PrototypeSlot]
    THEN InheritedField(key, obj[PrototypeSlot][key])
    ELSE IF key = "isTranslatable"
    THEN InheritedField(key, Len(obj[PrototypeSlot].translationLanguages) > 0)
    ELSE ObjectPrototypeMember(key)

EmptyObject == [k \in {} |-> k]

Null == [type |-> "null"]

Return(v) == [threw |-> FALSE, value |-> v]

Throw(e) == [threw |-> TRUE, error |-> e]

Max(a, b) == IF a >= b THEN a ELSE b

SeqsUpTo(S, n) == UNION {[1..k -> S] : k \in 0..n}

StartsWith(s, fragment) == Len(s) >= 1 /\ s[1] = fragment

Includes(s, fragment) == \E i \in 1..Len(s) : s[i] = fragment

(***************************************************************************)
(* proxies.ts                                                              *)
(***************************************************************************)
GenericProxyConfig == [type |-> "GenericProxyConfig"]

WebshareProxyConfig(r) == [type |-> "WebshareProxyConfig", _retriesWhenBlocked |-> r]

retriesWhenBlocked(cfg) ==
    IF cfg.type = "WebshareProxyConfig" THEN cfg._retriesWhenBlocked ELSE 0

isGeneric(cfg) == cfg.type = "GenericProxyConfig"

isWebshare(cfg) == cfg.type = "WebshareProxyConfig"

ProxyConfigs ==
    {Null, GenericProxyConfig} \cup {WebshareProxyConfig(r) : r \in 0..MaxRetries}

(***************************************************************************)
(* errors.ts                                                               *)
(***************************************************************************)
CouldNotRetrieveTranscript(kind, vid) == [kind |-> kind, videoId |-> vid]

RequestBlocked(vid) == [kind |-> "RequestBlocked", videoId |-> vid, proxyConfig |-> Null]

IpBlocked(vid) == [kind |-> "IpBlocked", videoId |-> vid, proxyConfig |-> Null]

VideoUnplayable(vid, psd, subReasons) ==
    IF Has(psd, "reason")
    THEN [kind |-> "VideoUnplayable", videoId |-> vid, reason |-> psd.reason,
          subReasons |-> subReasons]
    ELSE [kind |-> "VideoUnplayable", videoId |-> vid, subReasons |-> subReasons]

\* InstanceOfRequestBlocked tested against the base class: every retrieval
\* error counts as blocked
InstanceOfCouldNotRetrieveTranscript(e) == Has(e, "videoId")

\* error instanceof RequestBlocked (IpBlocked extends RequestBlocked)
InstanceOfRequestBlocked(e) == e.kind \in {"RequestBlocked", "IpBlocked"}

\* withProxyConfig without the assignment: the configuration is not stored
withProxyConfigDropped(e, cfg) == e

withProxyConfig(e, cfg) == [e EXCEPT !.proxyConfig = cfg]

\* the static CAUSE_MESSAGE of the error's own class; the one of
\* CouldNotRetrieveTranscript itself is the empty string
CAUSE_MESSAGE(e) ==
    IF e.kind = "CouldNotRetrieveTranscript" THEN <<>> ELSE <<e.kind, "CAUSE_MESSAGE">>

\* RequestBlocked.cause
RequestBlockedCause(e) ==
    IF e.proxyConfig # Null /\ isWebshare(e.proxyConfig)
    THEN <<"RequestBlocked", "WITH_WEBSHARE_PROXY_CAUSE_MESSAGE">>
    ELSE IF e.proxyConfig # Null /\ isGeneric(e.proxyConfig)
    THEN <<"RequestBlocked", "WITH_GENERIC_PROXY_CAUSE_MESSAGE">>
    ELSE CAUSE_MESSAGE(e)

(***************************************************************************)
(* Inputs: video ids, playability objects, player responses, watch pages   *)
(***************************************************************************)
BOT_DETECTED == <<"Sign in to confirm you're not a bot">>

AGE_RESTRICTED == <<"Sign in to confirm your age">>

VIDEO_UNAVAILABLE == <<"Video unavailable">>

\* the fragments a reason string is made of: the three phrases and other text
ReasonFragments ==
    {BOT_DETECTED[1], AGE_RESTRICTED[1], VIDEO_UNAVAILABLE[1], " (other text) "}

Reasons == SeqsUpTo(ReasonFragments, MaxReasonLen)

\* status "" is a present but falsy status; "UNPLAYABLE" is any other status
Statuses == {"", "OK", "ERROR", "LOGIN_REQUIRED", "UNPLAYABLE"}

\* a run of the error screen's subreason, with or without a text field
Runs == {[text |-> "details"], [text |-> ""], [bold |-> TRUE]}

RunLists == SeqsUpTo(Runs, MaxRuns)

\* playabilityStatus objects; runs stands for
\* errorScreen.playerErrorMessageRenderer.subreason.runs
PlayabilityObjects ==
    {EmptyObject}
    \cup {[status |-> s] : s \in Statuses}
    \cup {[reason |-> r] : r \in Reasons}
    \cup {[status |-> s, reason |-> r] : s \in Statuses, r \in Reasons}
    \cup {[status |-> s, runs |-> u] : s \in Statuses, u \in RunLists}
    \cup {[status |-> s, reason |-> r, runs |-> u] :
            s \in Statuses, r \in Reasons, u \in RunLists}

PlainId == <<"dQw4w9WgXcQ">>

UrlId == <<"https://", "www.youtube.com/watch?v=dQw4w9WgXcQ">>

VideoIds ==
    {PlainId,
     UrlId,
     <<"http://", "www.youtube.com/watch?v=dQw4w9WgXcQ">>,
     <<"youtu.be/dQw4w9WgXcQ?u=", "https://">>}

\* caption tracks of a player response (name stands for name.simpleText)
ManualEn ==
    [languageCode |-> "en", name |-> "English", baseUrl |-> "https://yt/api/timedtext?lang=en",
     isTranslatable |-> TRUE]

AsrDe ==
    [languageCode |-> "de", name |-> "German (auto-generated)",
     baseUrl |-> "https://yt/api/timedtext?lang=de&kind=asr", kind |-> "asr",
     isTranslatable |-> FALSE]

TranslationLanguagesFr == <<[languageName |-> "French", languageCode |-> "fr"]>>

\* captions.playerCaptionsTracklistRenderer objects
CaptionsObjects ==
    {EmptyObject,
     [captionTracks |-> <<>>],
     [captionTracks |-> <<ManualEn>>, translationLanguages |-> TranslationLanguagesFr],
     [captionTracks |-> <<ManualEn, AsrDe>>]}

\* playabilityStatus objects of the watch pages served to the fetcher: one
\* without a status, one with the empty status, and one for every row of
\* the classifier
PagePlayabilityObjects ==
    {EmptyObject,
     [status |-> ""],
     [status |-> "OK"],
     [status |-> "LOGIN_REQUIRED", reason |-> BOT_DETECTED],
     [status |-> "LOGIN_REQUIRED", reason |-> AGE_RESTRICTED],
     [status |-> "ERROR", reason |-> VIDEO_UNAVAILABLE],
     [status |-> "UNPLAYABLE", reason |-> <<" (other text) ">>]}

\* parsed ytInitialPlayerResponse objects (captions stands for
\* captions.playerCaptionsTracklistRenderer)
PlayerResponses ==
    {EmptyObject}
    \cup {[playabilityStatus |-> ps] : ps \in PagePlayabilityObjects}
    \cup {[captions |-> c] : c \in CaptionsObjects}
    \cup {[playabilityStatus |-> ps, captions |-> c] :
            ps \in PagePlayabilityObjects, c \in CaptionsObjects}

CONSENT_FORM == "action=\"https://consent.youtube.com/s\""

G_RECAPTCHA == "class=\"g-recaptcha\""

\* A watch page as fetchHtml returns it: the marker substrings it includes,
\* the value of its name="v" input when it has one, and the object that
\* follows "var ytInitialPlayerResponse" when one can be extracted from it.
Pages ==
    LET Markers == SUBSET {CONSENT_FORM, G_RECAPTCHA}
        Values == {"cb.20210328-17-p0.en+FX+471"}
    IN  {[includes |-> m] : m \in Markers}
        \cup {[includes |-> m, v |-> x] : m \in Markers, x \in Values}
        \cup {[includes |-> m, ytInitialPlayerResponse |-> d] :
                m \in Markers, d \in PlayerResponses}
        \cup {[includes |-> m, v |-> x, ytInitialPlayerResponse |-> d] :
                m \in Markers, x \in Values, d \in PlayerResponses}

\* what httpClient.get(url) followed by unescapeHtml yields: a page, or the
\* transport's own error
NetworkError == [kind |-> "AxiosError"]

Responses == {Return(p) : p \in Pages} \cup {Throw(NetworkError)}

(***************************************************************************)
(* transcripts.ts: TranscriptListFetcher.assertPlayability                 *)
(***************************************************************************)
\* JavaScript truthiness of a string
Truthy(str) == str # ""

\* run.text || ""
RunText(run) == IF Has(run, "text") /\ Truthy(run.text) THEN run.text ELSE ""

\* subreasons.map((run: any) => run.text || "")
SubReasonTexts(runs) == [i \in 1..Len(runs) |-> RunText(runs[i])]

\* playabilityStatusData?.errorScreen?...?.subreason?.runs || []
SubreasonRuns(psd) == IF Has(psd, "runs") THEN psd.runs ELSE <<>>

\* ReasonIs with includes in place of ===
ReasonIncludes(psd, phrase) == Has(psd, "reason") /\ Includes(psd.reason, phrase[1])

\* reason === phrase, where reason is undefined when the key is absent
ReasonIs(psd, phrase) == Has(psd, "reason") /\ psd.reason = phrase

\* the condition guarding the whole classifier (line 345)
IsNotPlayable(psd) ==
    Has(psd, "status") /\ Truthy(psd.status) /\ psd.status # "OK"

\* LooksLikeUrl with includes in place of startsWith
LooksLikeUrlAnywhere(vid) == Includes(vid, "http://") \/ Includes(vid, "https://")

\* videoId.startsWith("http://") || videoId.startsWith("https://")
LooksLikeUrl(vid) == StartsWith(vid, "http://") \/ StartsWith(vid, "https://")

assertPlayability(psd, vid) ==
    IF IsNotPlayable(psd)
    THEN IF psd.status = "LOGIN_REQUIRED" /\ ReasonIs(psd, BOT_DETECTED)
         THEN Throw(RequestBlocked(vid))
         ELSE IF psd.status = "LOGIN_REQUIRED" /\ ReasonIs(psd, AGE_RESTRICTED)
         THEN Throw(CouldNotRetrieveTranscript("AgeRestricted", vid))
         ELSE IF psd.status = "ERROR" /\ ReasonIs(psd, VIDEO_UNAVAILABLE)
         THEN IF LooksLikeUrl(vid)
              THEN Throw(CouldNotRetrieveTranscript("InvalidVideoId", vid))
              ELSE Throw(CouldNotRetrieveTranscript("VideoUnavailable", vid))
         ELSE Throw(VideoUnplayable(vid, psd, SubReasonTexts(SubreasonRuns(psd))))
    ELSE Return(Null)

(***************************************************************************)
(* ClassifySpec: the classifier applied to every playability object        *)
(***************************************************************************)
ClassifyIdle ==
    /\ clsInput = Null
    /\ clsResult = Null

ListIdle ==
    /\ lsCaptions = Null
    /\ lsList = Null
    /\ lsFind = Null
    /\ lsTranslate = Null
    /\ lsAgain = Null

ParseIdle ==
    /\ psInput = Null
    /\ psResult = Null

TrackIdle ==
    /\ tfInput = Null
    /\ tfGets = 0
    /\ tfResult = Null

JsVarIdle ==
    /\ jvInput = Null
    /\ jvResult = Null

CliIdle ==
    /\ cliArgs = Null
    /\ cliPc = "idle"
    /\ cliIndex = 0
    /\ cliInFlight = 0
    /\ cliTrack = Null
    /\ cliTranscripts = <<>>
    /\ cliExceptions = <<>>
    /\ cliOutput = Null

FormatIdle ==
    /\ fmInput = Null
    /\ fmRaw = Null
    /\ fmIterated = Null
    /\ fmSrt = Null

RenderIdle ==
    /\ rnError = Null
    /\ rnMessage = Null
    /\ rnAnnotated = FALSE
    /\ rnShown = Null

BatchIdle ==
    /\ btArgs = Null
    /\ btPc = "idle"
    /\ btData = EmptyObject
    /\ btUnretrievable = <<>>
    /\ btAttempted = <<>>
    /\ btSettled = <<>>
    /\ btOutcome = Null

MoreIdle ==
    /\ JsVarIdle
    /\ CliIdle
    /\ FormatIdle
    /\ RenderIdle
    /\ BatchIdle

\* every specification but the named one is idle (the fetcher apart)
OthersIdle(group) ==
    /\ ClassifyIdle
    /\ ListIdle
    /\ ParseIdle
    /\ TrackIdle
    /\ group # "jsVar" => JsVarIdle
    /\ group # "cli" => CliIdle
    /\ group # "format" => FormatIdle
    /\ group # "render" => RenderIdle
    /\ group # "batch" => BatchIdle

\* the variables of the other specifications that follow TrackSpec stay
OthersUnchanged(group) ==
    /\ group # "jsVar" => UNCHANGED jsVarVars
    /\ group # "cli" => UNCHANGED cliVars
    /\ group # "format" => UNCHANGED formatVars
    /\ group # "render" => UNCHANGED renderVars
    /\ group # "batch" => UNCHANGED batchVars

Idle ==
    /\ proxyConfig = Null
    /\ cookie = <<>>
    /\ pc = "idle"
    /\ videoId = <<>>
    /\ tryNumber = 0
    /\ html = Null
    /\ fetches = 0
    /\ attempts = 0
    /\ caught = <<>>
    /\ outcome = Null
    /\ calls = 0

ClassifyInit ==
    /\ Idle
    /\ ListIdle
    /\ ParseIdle
    /\ TrackIdle
    /\ MoreIdle
    /\ clsInput \in [playabilityStatusData : PlayabilityObjects, videoId : VideoIds]
    /\ clsResult = Null

Classify ==
    /\ clsInput # Null
    /\ clsResult = Null
    /\ clsResult' = assertPlayability(clsInput.playabilityStatusData, clsInput.videoId)
    /\ UNCHANGED <<clsInput, fetcherVars, listVars, parseVars, trackVars, moreVars>>

ClassifyNext == Classify

ClassifySpec == ClassifyInit /\ [][ClassifyNext]_vars

(***************************************************************************)
(* transcripts.ts: Transcript, TranscriptList.build                        *)
(***************************************************************************)
Transcript(vid, url, language, languageCode, isGenerated, translationLanguages) ==
    [videoId |-> vid, url |-> url, language |-> language,
     languageCode |-> languageCode, isGenerated |-> isGenerated,
     translationLanguages |-> translationLanguages]

\* the kind test answering true for every track that has a kind
IsAsrAnyKind(caption) == Has(caption, "kind")

\* caption.kind === "asr"
IsAsr(caption) == Has(caption, "kind") /\ caption.kind = "asr"

\* (captionsJson.translationLanguages || []).map(...)
TranslationLanguagesOf(captionsJson) ==
    IF Has(captionsJson, "translationLanguages")
    THEN [i \in 1..Len(captionsJson.translationLanguages) |->
            [language |-> captionsJson.translationLanguages[i].languageName,
             languageCode |-> captionsJson.translationLanguages[i].languageCode]]
    ELSE <<>>

\* captionsJson.captionTracks || []
CaptionTracksOf(captionsJson) ==
    IF Has(captionsJson, "captionTracks") THEN captionsJson.captionTracks ELSE <<>>

\* caption.isTranslatable ? translationLanguages : []
TranslationSetOf(caption, translationLanguages) ==
    IF caption.isTranslatable THEN translationLanguages ELSE <<>>

\* the dictionary the loop of build leaves for one kind of track: the last
\* track of that kind with a given language code wins. The assignment
\* transcriptDict["__proto__"] = new Transcript(...) runs the setter of
\* Object.prototype: the Transcript becomes the prototype of the
\* dictionary, which gets no key of its own for it
TranscriptDict(vid, tracks, generated, translationLanguages) ==
    LET Mine == {i \in 1..Len(tracks) : IsAsr(tracks[i]) = generated}
        Codes == {tracks[i].languageCode : i \in Mine}
        Last(code) == CHOOSE i \in Mine :
                         /\ tracks[i].languageCode = code
                         /\ \A j \in Mine : tracks[j].languageCode = code => j <= i
        TranscriptOf(code) ==
            LET caption == tracks[Last(code)]
            IN  Transcript(vid, caption.baseUrl, caption.name, caption.languageCode,
                           IsAsr(caption),
                           TranslationSetOf(caption, translationLanguages))
        own == [code \in Codes \ {"__proto__"} |-> TranscriptOf(code)]
    IN  IF "__proto__" \in Codes
        THEN (PrototypeSlot :> TranscriptOf("__proto__")) @@ own
        ELSE own

build(vid, captionsJson) ==
    LET translationLanguages == TranslationLanguagesOf(captionsJson)
        tracks == CaptionTracksOf(captionsJson)
    IN  [videoId |-> vid,
         manuallyCreatedTranscripts |-> TranscriptDict(vid, tracks, FALSE, translationLanguages),
         generatedTranscripts |-> TranscriptDict(vid, tracks, TRUE, translationLanguages),
         translationLanguages |-> translationLanguages]

(***************************************************************************)
(* transcripts.ts: JsVarParser, TranscriptListFetcher.extractCaptionsJson  *)
(***************************************************************************)
\* new JsVarParser("ytInitialPlayerResponse").parse(html, videoId)
JsVarParserParse(page, vid) ==
    IF Has(page, "ytInitialPlayerResponse")
    THEN Return(page.ytInitialPlayerResponse)
    ELSE Throw(CouldNotRetrieveTranscript("YouTubeDataUnparsable", vid))

\* ParseFailed without the CAPTCHA check: the error is always rethrown
ParseFailedUnchecked(page, vid, error) == Throw(error)

\* the catch block around varParser.parse (lines 326-331)
ParseFailed(page, vid, error) ==
    IF G_RECAPTCHA \in page.includes THEN Throw(IpBlocked(vid)) ELSE Throw(error)

\* videoData.playabilityStatus, undefined read as an object without keys:
\* assertPlayability only reads it through ?.
PlayabilityStatusOf(videoData) ==
    IF Has(videoData, "playabilityStatus") THEN videoData.playabilityStatus ELSE EmptyObject

\* !captionsJson?.captionTracks : an array, even an empty one, is truthy
CaptionTracksMissing(videoData) ==
    ~(Has(videoData, "captions") /\ Has(videoData.captions, "captionTracks"))

extractCaptionsJson(page, vid) ==
    LET parsed == JsVarParserParse(page, vid)
    IN  IF parsed.threw
        THEN ParseFailed(page, vid, parsed.error)
        ELSE LET videoData == parsed.value
                 playable == assertPlayability(PlayabilityStatusOf(videoData), vid)
             IN  IF playable.threw
                 THEN playable
                 ELSE IF CaptionTracksMissing(videoData)
                 THEN Throw(CouldNotRetrieveTranscript("TranscriptsDisabled", vid))
                 ELSE Return(videoData.captions)

(***************************************************************************)
(* transcripts.ts: TranscriptListFetcher.fetch / fetchCaptionsJson /       *)
(* fetchVideoHtml / createConsentCookie                                    *)
(*                                                                         *)
(* The suspension points that separate two states are the two awaited     *)
(* httpClient.get calls of fetchVideoHtml and the awaited                  *)
(* createConsentCookie, which has written the Cookie header when the       *)
(* function is resumed to issue the second GET.                            *)
(***************************************************************************)
Init ==
    /\ proxyConfig \in ProxyConfigs
    /\ cookie = <<>>
    /\ pc = "idle"
    /\ videoId = <<>>
    /\ tryNumber = 0
    /\ html = Null
    /\ fetches = 0
    /\ attempts = 0
    /\ caught = <<>>
    /\ outcome = Null
    /\ calls = 0
    /\ clsInput = Null
    /\ clsResult = Null
    /\ ListIdle
    /\ ParseIdle
    /\ TrackIdle
    /\ MoreIdle

\* this.proxyConfig?.retriesWhenBlocked || 0
Retries(cfg) == IF cfg = Null THEN 0 ELSE retriesWhenBlocked(cfg)

\* RetryAllowed with the comparison off by one: one attempt too many
RetryAllowedInclusive(try, retries) == try + 1 <= retries

\* tryNumber + 1 < retries (line 306)
RetryAllowed(try, retries) == try + 1 < retries

\* Annotated throwing a new RequestBlocked in place of the error caught
AnnotatedAsRequestBlocked(e, cfg) ==
    IF Has(e, "proxyConfig") THEN withProxyConfig(RequestBlocked(e.videoId), cfg) ELSE e

\* typeof error.withProxyConfig === 'function' ? error.withProxyConfig(cfg) : error
Annotated(e, cfg) == IF Has(e, "proxyConfig") THEN withProxyConfig(e, cfg) ELSE e

\* the call settles: fetch() returns the built list or the error propagates
Deliver(result) ==
    /\ pc' = "done"
    /\ outcome' = result
    /\ UNCHANGED <<tryNumber, attempts, fetches>>

\* return this.fetchCaptionsJson(videoId, tryNumber + 1): the next attempt
\* runs up to its first awaited GET
Retry ==
    /\ pc' = "fetch1"
    /\ tryNumber' = tryNumber + 1
    /\ attempts' = attempts + 1
    /\ fetches' = 1
    /\ outcome' = outcome

\* fetch / fetchCaptionsJson (lines 291-318) once the attempt has produced
\* its captionsJson or thrown
AttemptEnds(result) ==
    IF ~result.threw
    THEN /\ caught' = caught
         /\ Deliver(Return(build(videoId, result.value)))
    ELSE /\ caught' = Append(caught, result.error)
         /\ IF InstanceOfRequestBlocked(result.error)
            THEN IF RetryAllowed(tryNumber, Retries(proxyConfig))
                 THEN Retry
                 ELSE Deliver(Throw(Annotated(result.error, proxyConfig)))
            ELSE Deliver(Throw(result.error))

\* ShowsConsentForm looking for the wrong marker
ShowsRecaptchaForm(page) == G_RECAPTCHA \in page.includes

\* html.includes('action="https://consent.youtube.com/s"')
ShowsConsentForm(page) == CONSENT_FORM \in page.includes

\* createConsentCookie: the regular expression matches iff the page has a v
ConsentCookie(page) == <<"CONSENT=YES+", page.v>>

\* List starting every call without the Cookie header of earlier calls
ListResettingCookie(vid) ==
    /\ pc \in {"idle", "done"}
    /\ calls < MaxCalls
    /\ calls' = calls + 1
    /\ pc' = "fetch1"
    /\ videoId' = vid
    /\ tryNumber' = 0
    /\ attempts' = 1
    /\ fetches' = 1
    /\ html' = Null
    /\ caught' = <<>>
    /\ outcome' = Null
    /\ cookie' = <<>>
    /\ UNCHANGED <<proxyConfig, pureVars, moreVars>>

\* api.list(videoId): a new call on the instance issues its first GET
List(vid) ==
    /\ pc \in {"idle", "done"}
    /\ calls < MaxCalls
    /\ calls' = calls + 1
    /\ pc' = "fetch1"
    /\ videoId' = vid
    /\ tryNumber' = 0
    /\ attempts' = 1
    /\ fetches' = 1
    /\ html' = Null
    /\ caught' = <<>>
    /\ outcome' = Null
    /\ UNCHANGED <<proxyConfig, cookie, pureVars, moreVars>>

\* the first GET of fetchVideoHtml completes (line 384)
FirstResponse(response) ==
    /\ pc = "fetch1"
    /\ IF response.threw
       THEN /\ html' = Null
            /\ cookie' = cookie
            /\ AttemptEnds(response)
       ELSE LET page == response.value
            IN  /\ html' = page
                /\ IF ShowsConsentForm(page)
                   THEN IF Has(page, "v")
                        THEN /\ cookie' = ConsentCookie(page)
                             /\ pc' = "consent"
                             /\ UNCHANGED <<tryNumber, attempts, fetches, caught, outcome>>
                        ELSE /\ cookie' = cookie
                             /\ AttemptEnds(Throw(CouldNotRetrieveTranscript(
                                    "FailedToCreateConsentCookie", videoId)))
                   ELSE /\ cookie' = cookie
                        /\ AttemptEnds(extractCaptionsJson(page, videoId))
    /\ UNCHANGED <<proxyConfig, videoId, calls, pureVars, moreVars>>

\* await this.createConsentCookie(html, videoId) resumes (line 386) and the
\* second GET is issued (line 387)
ConsentCookieCreated ==
    /\ pc = "consent"
    /\ pc' = "fetch2"
    /\ fetches' = fetches + 1
    /\ UNCHANGED <<proxyConfig, cookie, videoId, tryNumber, html, attempts, caught,
                   outcome, calls, pureVars, moreVars>>

\* the second GET of fetchVideoHtml completes (line 387)
SecondResponse(response) ==
    /\ pc = "fetch2"
    /\ IF response.threw
       THEN /\ html' = Null
            /\ AttemptEnds(response)
       ELSE LET page == response.value
            IN  /\ html' = page
                /\ IF ShowsConsentForm(page)
                   THEN AttemptEnds(Throw(CouldNotRetrieveTranscript(
                            "FailedToCreateConsentCookie", videoId)))
                   ELSE AttemptEnds(extractCaptionsJson(page, videoId))
    /\ UNCHANGED <<proxyConfig, cookie, videoId, calls, pureVars, moreVars>>

Next ==
    \/ \E vid \in {PlainId, UrlId} : List(vid)
    \/ \E response \in Responses : FirstResponse(response)
    \/ ConsentCookieCreated
    \/ \E response \in Responses : SecondResponse(response)

Spec == Init /\ [][Next]_vars

(***************************************************************************)
(* Inputs of ListSpec: caption track lists, preference lists               *)
(***************************************************************************)
TrackCodes == {"en", "de", "__proto__"}

\* caption.kind: absent ("none" stands for a track without the key), "asr",
\* or another kind
TrackKinds == {"none", "asr", "forced"}

\* caption.name.simpleText
TrackName(code, kind) ==
    CASE code = "en" /\ kind = "none" -> "English"
      [] code = "en" /\ kind = "asr" -> "English (auto-generated)"
      [] code = "en" /\ kind = "forced" -> "English (forced)"
      [] code = "de" /\ kind = "none" -> "German"
      [] code = "de" /\ kind = "asr" -> "German (auto-generated)"
      [] code = "de" /\ kind = "forced" -> "German (forced)"
      [] code = "__proto__" /\ kind = "none" -> "Proto"
      [] code = "__proto__" /\ kind = "asr" -> "Proto (auto-generated)"
      [] code = "__proto__" /\ kind = "forced" -> "Proto (forced)"

\* caption.baseUrl
TrackUrl(code, kind) ==
    CASE code = "en" /\ kind = "none" -> "https://yt/api/timedtext?lang=en"
      [] code = "en" /\ kind = "asr" -> "https://yt/api/timedtext?lang=en&kind=asr"
      [] code = "en" /\ kind = "forced" -> "https://yt/api/timedtext?lang=en&kind=forced"
      [] code = "de" /\ kind = "none" -> "https://yt/api/timedtext?lang=de"
      [] code = "de" /\ kind = "asr" -> "https://yt/api/timedtext?lang=de&kind=asr"
      [] code = "de" /\ kind = "forced" -> "https://yt/api/timedtext?lang=de&kind=forced"
      [] code = "__proto__" /\ kind = "none" -> "https://yt/api/timedtext?lang=__proto__"
      [] code = "__proto__" /\ kind = "asr" ->
            "https://yt/api/timedtext?lang=__proto__&kind=asr"
      [] code = "__proto__" /\ kind = "forced" ->
            "https://yt/api/timedtext?lang=__proto__&kind=forced"

CaptionTrack(code, kind, translatable) ==
    IF kind = "none"
    THEN [languageCode |-> code, name |-> TrackName(code, kind),
          baseUrl |-> TrackUrl(code, kind), isTranslatable |-> translatable]
    ELSE [languageCode |-> code, name |-> TrackName(code, kind),
          baseUrl |-> TrackUrl(code, kind), isTranslatable |-> translatable,
          kind |-> kind]

CaptionTracks ==
    {CaptionTrack(code, kind, translatable) :
        code \in TrackCodes, kind \in TrackKinds, translatable \in BOOLEAN}

\* captionsJson.translationLanguages (languageName stands for
\* languageName.simpleText)
TranslationLanguagesFrEs ==
    <<[languageName |-> "French", languageCode |-> "fr"],
      [languageName |-> "Spanish", languageCode |-> "es"]>>

\* the captionsJson objects given to build
CaptionsInputs ==
    {EmptyObject}
    \cup {[captionTracks |-> t] : t \in SeqsUpTo(CaptionTracks, MaxTracks)}
    \cup {[captionTracks |-> t, translationLanguages |-> TranslationLanguagesFrEs] :
            t \in SeqsUpTo(CaptionTracks, MaxTracks)}

\* language codes a caller asks for
RequestedCodes == {"en", "de", "fr", "constructor", "__proto__", "videoId"}

LanguageCodeLists == SeqsUpTo(RequestedCodes, MaxCodes)

\* language codes a caller asks a translation into
TargetCodes == {"fr", "es", "en", "constructor"}

(***************************************************************************)
(* errors.ts: the errors of find and translate                             *)
(***************************************************************************)
NotTranslatable(vid) == CouldNotRetrieveTranscript("NotTranslatable", vid)

TranslationLanguageNotAvailable(vid) ==
    CouldNotRetrieveTranscript("TranslationLanguageNotAvailable", vid)

NoTranscriptFound(vid, requestedLanguageCodes, transcriptData) ==
    [kind |-> "NoTranscriptFound", videoId |-> vid,
     requestedLanguageCodes |-> requestedLanguageCodes,
     transcriptData |-> transcriptData]

(***************************************************************************)
(* transcripts.ts: TranscriptList.find*, Transcript.translate              *)
(***************************************************************************)
\* the dictionaries findTranscript hands to findTranscriptInternal
FindTranscriptDicts(tl) ==
    <<tl.manuallyCreatedTranscripts, tl.generatedTranscripts>>

FindGeneratedTranscriptDicts(tl) == <<tl.generatedTranscripts>>

FindManuallyCreatedTranscriptDicts(tl) == <<tl.manuallyCreatedTranscripts>>

\* the nested loops of findTranscriptInternal: language codes outside,
\* dictionaries inside, the first hit is returned
findTranscriptInternal(tl, languageCodes, transcriptDicts) ==
    LET InDict(i, k) == In(languageCodes[i], transcriptDicts[k])
        Hits == {i \in 1..Len(languageCodes) :
                    \E k \in 1..Len(transcriptDicts) : InDict(i, k)}
    IN  IF Hits = {}
        THEN Throw(NoTranscriptFound(tl.videoId, languageCodes, tl))
        ELSE LET i == CHOOSE h \in Hits : \A g \in Hits : h <= g
                 Dicts == {k \in 1..Len(transcriptDicts) : InDict(i, k)}
                 k == CHOOSE d \in Dicts : \A e \in Dicts : d <= e
             IN  Return(Get(transcriptDicts[k], languageCodes[i]))

findTranscript(tl, languageCodes) ==
    findTranscriptInternal(tl, languageCodes, FindTranscriptDicts(tl))

findGeneratedTranscript(tl, languageCodes) ==
    findTranscriptInternal(tl, languageCodes, FindGeneratedTranscriptDicts(tl))

findManuallyCreatedTranscript(tl, languageCodes) ==
    findTranscriptInternal(tl, languageCodes, FindManuallyCreatedTranscriptDicts(tl))

FindMethods ==
    {"findTranscript", "findGeneratedTranscript", "findManuallyCreatedTranscript"}

find(method, tl, languageCodes) ==
    CASE method = "findTranscript" -> findTranscript(tl, languageCodes)
      [] method = "findGeneratedTranscript" -> findGeneratedTranscript(tl, languageCodes)
      [] method = "findManuallyCreatedTranscript" ->
            findManuallyCreatedTranscript(tl, languageCodes)

\* Object.fromEntries(translationLanguages.map(tl => [tl.languageCode,
\* tl.language])): a later entry with the same code replaces an earlier one
translationLanguagesDict(t) ==
    LET tls == t.translationLanguages
        Last(code) == CHOOSE i \in 1..Len(tls) :
                         /\ tls[i].languageCode = code
                         /\ \A j \in 1..Len(tls) : tls[j].languageCode = code => j <= i
    IN  [code \in {tls[i].languageCode : i \in 1..Len(tls)} |-> tls[Last(code)].language]

\* get isTranslatable
isTranslatable(t) == Len(t.translationLanguages) > 0

\* the Transcript translate constructs; the template literal
\* `${this.url}&tlang=${languageCode}` is the sequence of its three parts
TranslatedTranscript(t, languageCode) ==
    Transcript(t.videoId, <<t.url, "&tlang=", languageCode>>,
               Get(translationLanguagesDict(t), languageCode), languageCode, TRUE, <<>>)

translate(t, languageCode) ==
    IF ~isTranslatable(t)
    THEN Throw(NotTranslatable(t.videoId))
    ELSE IF ~In(languageCode, translationLanguagesDict(t))
    THEN Throw(TranslationLanguageNotAvailable(t.videoId))
    ELSE Return(TranslatedTranscript(t, languageCode))

\* the engine's error for calling what is not a function or constructing
\* with what is not a constructor
TypeError == [kind |-> "TypeError"]

\* receiver.translate(languageCode) on what a find method returned: an
\* inherited member of Object.prototype has no translate method
CallTranslate(receiver, languageCode) ==
    IF Has(receiver, "inherited")
    THEN Throw(TypeError)
    ELSE translate(receiver, languageCode)

(***************************************************************************)
(* ListSpec: build on every captionsJson, then one find call on the list,  *)
(* one translate call on the track found and one on its translation        *)
(***************************************************************************)
ListInit ==
    /\ Idle
    /\ ClassifyIdle
    /\ ParseIdle
    /\ TrackIdle
    /\ MoreIdle
    /\ lsCaptions \in CaptionsInputs
    /\ lsList = Null
    /\ lsFind = Null
    /\ lsTranslate = Null
    /\ lsAgain = Null

Build ==
    /\ lsCaptions # Null
    /\ lsList = Null
    /\ lsList' = build(PlainId, lsCaptions)
    /\ UNCHANGED <<lsCaptions, lsFind, lsTranslate, lsAgain, fetcherVars, classifyVars,
                 parseVars, trackVars, moreVars>>

Find(method, languageCodes) ==
    /\ lsList # Null
    /\ lsFind = Null
    /\ lsFind' = [method |-> method, languageCodes |-> languageCodes,
                  result |-> find(method, lsList, languageCodes)]
    /\ UNCHANGED <<lsCaptions, lsList, lsTranslate, lsAgain, fetcherVars, classifyVars,
                 parseVars, trackVars, moreVars>>

Translate(languageCode) ==
    /\ lsFind # Null
    /\ ~lsFind.result.threw
    /\ lsTranslate = Null
    /\ lsTranslate' = [receiver |-> lsFind.result.value, languageCode |-> languageCode,
                       result |-> CallTranslate(lsFind.result.value, languageCode)]
    /\ UNCHANGED <<lsCaptions, lsList, lsFind, lsAgain, fetcherVars, classifyVars,
                 parseVars, trackVars, moreVars>>

TranslateAgain(languageCode) ==
    /\ lsTranslate # Null
    /\ ~lsTranslate.result.threw
    /\ lsAgain = Null
    /\ lsAgain' = [languageCode |-> languageCode,
                   result |-> translate(lsTranslate.result.value, languageCode)]
    /\ UNCHANGED <<lsCaptions, lsList, lsFind, lsTranslate, fetcherVars, classifyVars,
                 parseVars, trackVars, moreVars>>

ListNext ==
    \/ Build
    \/ \E method \in FindMethods, languageCodes \in LanguageCodeLists :
          Find(method, languageCodes)
    \/ \E languageCode \in TargetCodes : Translate(languageCode)
    \/ \E languageCode \in TargetCodes : TranslateAgain(languageCode)

ListSpec == ListInit /\ [][ListNext]_vars

(***************************************************************************)
(* Inputs of ParseSpec: the <text> elements of a transcript document       *)
(***************************************************************************)
\* The markup a text content can hold, as the string reads after JSDOM has
\* decoded the document: the tag's name and whether the character before its
\* closing ">" is a word character (what \b> of the regex asks for).
TagTable ==
    {[fragment |-> "<i>", name |-> "i", wordBeforeClose |-> TRUE],
     [fragment |-> "</i>", name |-> "i", wordBeforeClose |-> TRUE],
     [fragment |-> "<span>", name |-> "span", wordBeforeClose |-> TRUE],
     [fragment |-> "<br/>", name |-> "br", wordBeforeClose |-> FALSE]}

TagFragments == {row.fragment : row \in TagTable}

\* fragments without "<" and ">"
PlainFragments == {"Hello"}

TextFragments == PlainFragments \cup TagFragments

\* element.textContent: the empty sequence is the empty string
TextContents == SeqsUpTo(TextFragments, MaxFragments)

\* the decimal literals parseFloat reads, in thousandths
NumericLiterals ==
    ("0" :> 0) @@ ("0.0" :> 0) @@ ("1.5" :> 1500) @@ ("2.5" :> 2500)

\* values of the start and dur attributes: "", "0", "1.5", "abc", "1.5abc"
AttributeValues == {<<>>, <<"0">>, <<"1.5">>, <<"abc">>, <<"1.5", "abc">>}

\* a <text> element: its text content and the attributes it has
TextElement(textContent, start, dur) ==
    [textContent |-> textContent, start |-> start, dur |-> dur]

\* elements that differ in their text content
MarkupElements == {TextElement(t, <<"0">>, <<"2.5">>) : t \in TextContents}

\* elements that differ in their attributes
TimedElements ==
    {[textContent |-> <<"Hello">>]}
    \cup {[textContent |-> <<"Hello">>, start |-> a] : a \in AttributeValues}
    \cup {[textContent |-> <<"Hello">>, dur |-> a] : a \in AttributeValues}
    \cup {TextElement(<<"Hello">>, a, b) : a \in AttributeValues, b \in AttributeValues}

\* elements of a document with several lines, some without text, some equal,
\* not in the order of their start times
LineElements ==
    {TextElement(<<"Hello">>, <<"1.5">>, <<"2.5">>),
     TextElement(<<"Hello">>, <<"0">>, <<"1.5">>),
     TextElement(<<>>, <<"2.5">>, <<"0">>)}

\* doc.getElementsByTagName("text") of the documents handed to parse
Documents ==
    {<<e>> : e \in MarkupElements \cup TimedElements}
    \cup SeqsUpTo(LineElements, MaxElements)

(***************************************************************************)
(* transcripts.ts: TranscriptParser                                        *)
(***************************************************************************)
FORMATTING_TAGS ==
    {"strong", "em", "b", "i", "mark", "small", "del", "ins", "sub", "sup"}

\* JavaScript numbers: a finite value in thousandths, or NaN
Num(n) == [milli |-> n]

NaN == [nan |-> TRUE]

IsNaN(x) == Has(x, "nan")

\* parseFloat: the value of the longest numeric prefix, NaN without one
parseFloat(s) ==
    IF Len(s) >= 1 /\ s[1] \in DOMAIN NumericLiterals
    THEN Num(NumericLiterals[s[1]])
    ELSE NaN

\* element.getAttribute(name) || fallback: null and "" are falsy
getAttributeOr(element, name, fallback) ==
    IF Has(element, name) /\ element[name] # <<>> THEN element[name] ELSE fallback

IsTag(fragment) == fragment \in TagFragments

TagRow(fragment) == CHOOSE row \in TagTable : row.fragment = fragment

\* where a match of htmlRegex that starts at fragment i can end.
\*   <[^>]*>                        the tag itself
\*   <\/?(?!\/?(?:formats)\b).*?\b> a tag that is not a formatting tag, up to
\*                                  the first ">" that follows a word character
MatchEnds(text, i, preserveFormatting) ==
    IF ~IsTag(text[i])
    THEN {}
    ELSE IF ~preserveFormatting
    THEN {i}
    ELSE IF TagRow(text[i]).name \in FORMATTING_TAGS
    THEN {}
    ELSE {j \in i..Len(text) : IsTag(text[j]) /\ TagRow(text[j]).wordBeforeClose}

\* text.replace(this.htmlRegex, ""): the regex has no g flag, so the
\* leftmost match is cut out and the rest of the string is kept as it is
Replace(text, preserveFormatting) ==
    LET Starts == {i \in 1..Len(text) : MatchEnds(text, i, preserveFormatting) # {}}
    IN  IF Starts = {}
        THEN text
        ELSE LET i == CHOOSE s \in Starts : \A r \in Starts : s <= r
                 Ends == MatchEnds(text, i, preserveFormatting)
                 j == CHOOSE e \in Ends : \A d \in Ends : e <= d
             IN  SubSeq(text, 1, i - 1) \o SubSeq(text, j + 1, Len(text))

FetchedTranscriptSnippet(text, start, duration) ==
    [text |-> text, start |-> start, duration |-> duration]

\* element.textContent !== null: the text content of an element is a string,
\* the empty string when the element has no text
TextContentIsNotNull(element) == TRUE

\* the callback of map
ParseElement(element, preserveFormatting) ==
    FetchedTranscriptSnippet(
        Replace(element.textContent, preserveFormatting),
        parseFloat(getAttributeOr(element, "start", <<"0">>)),
        parseFloat(getAttributeOr(element, "dur", <<"0.0">>)))

\* elements.filter(...).map(...)
parse(elements, preserveFormatting) ==
    LET kept == SelectSeq(elements, TextContentIsNotNull)
    IN  [i \in 1..Len(kept) |-> ParseElement(kept[i], preserveFormatting)]

(***************************************************************************)
(* ParseSpec: the parser applied to every document                         *)
(***************************************************************************)
ParseInit ==
    /\ Idle
    /\ ClassifyIdle
    /\ ListIdle
    /\ TrackIdle
    /\ MoreIdle
    /\ psInput \in [elements : Documents, preserveFormatting : BOOLEAN]
    /\ psResult = Null

Parse ==
    /\ psInput # Null
    /\ psResult = Null
    /\ psResult' = Return(parse(psInput.elements, psInput.preserveFormatting))
    /\ UNCHANGED <<psInput, fetcherVars, classifyVars, listVars, trackVars, moreVars>>

ParseNext == Parse

ParseSpec == ParseInit /\ [][ParseNext]_vars

(***************************************************************************)
(* TrackSpec: Transcript.fetch on a track of a list, every response of the *)
(* track's URL being an input                                              *)
(***************************************************************************)
\* the tracks fetch is called on
TrackTranscripts ==
    LET tl == build(PlainId, [captionTracks |-> <<ManualEn, AsrDe>>,
                              translationLanguages |-> TranslationLanguagesFr])
    IN  {tl.manuallyCreatedTranscripts["en"], tl.generatedTranscripts["de"]}

\* the transport's error for a response with status 429
TooManyRequests == [kind |-> "AxiosError", status |-> 429]

\* what httpClient.get(this.url) yields: the text elements of the document
\* in response.data, or the transport's own error
TrackResponses ==
    {Return(d) : d \in SeqsUpTo(LineElements, MaxElements)}
    \cup {Throw(NetworkError), Throw(TooManyRequests)}

FetchedTranscript(snippets, vid, language, languageCode, isGenerated) ==
    [snippets |-> snippets, videoId |-> vid, language |-> language,
     languageCode |-> languageCode, isGenerated |-> isGenerated]

\* fetch reporting a failed retrieval as a blocked request
TrackOutcomeBlocked(t, preserveFormatting, response) ==
    IF response.threw
    THEN Throw(RequestBlocked(t.videoId))
    ELSE Return(FetchedTranscript(parse(response.value, preserveFormatting),
                                  t.videoId, t.language, t.languageCode,
                                  t.isGenerated))

\* Transcript.fetch after its await: a rejected GET rejects fetch with the
\* same error, a response is parsed and wrapped
TrackOutcome(t, preserveFormatting, response) ==
    IF response.threw
    THEN Throw(response.error)
    ELSE Return(FetchedTranscript(parse(response.value, preserveFormatting),
                                  t.videoId, t.language, t.languageCode,
                                  t.isGenerated))

TrackInit ==
    /\ proxyConfig \in ProxyConfigs
    /\ cookie = <<>>
    /\ pc = "idle"
    /\ videoId = <<>>
    /\ tryNumber = 0
    /\ html = Null
    /\ fetches = 0
    /\ attempts = 0
    /\ caught = <<>>
    /\ outcome = Null
    /\ calls = 0
    /\ ClassifyIdle
    /\ ListIdle
    /\ ParseIdle
    /\ tfInput \in [transcript : TrackTranscripts, preserveFormatting : BOOLEAN]
    /\ tfGets = 0
    /\ tfResult = Null
    /\ MoreIdle

\* fetch(preserveFormatting) runs up to its awaited GET
TrackFetch ==
    /\ tfInput # Null
    /\ tfGets = 0
    /\ tfResult = Null
    /\ tfGets' = tfGets + 1
    /\ UNCHANGED <<tfInput, tfResult, fetcherVars, classifyVars, listVars, parseVars, moreVars>>

\* the GET settles and fetch runs to its end
TrackResponse(response) ==
    /\ tfGets = 1
    /\ tfResult = Null
    /\ tfResult' = [response |-> response,
                    outcome |-> TrackOutcome(tfInput.transcript,
                                             tfInput.preserveFormatting, response)]
    /\ UNCHANGED <<tfInput, tfGets, fetcherVars, classifyVars, listVars, parseVars, moreVars>>

TrackNext ==
    \/ TrackFetch
    \/ \E response \in TrackResponses : TrackResponse(response)

TrackSpec == TrackInit /\ [][TrackNext]_vars

(***************************************************************************)
(* Inputs of JsVarSpec: watch pages as text                                *)
(***************************************************************************)
\* A page is the sequence of its pieces: the one-character pieces "{", "}",
\* "\"", "\\" and ":", the letter "a", and pieces of several characters
\* without any of these (VAR_NAME, " = ", ";").
VAR_NAME == "var ytInitialPlayerResponse"

\* what a JSON string can hold between its quotes, with the characters the
\* JSON value has for it
StringPieces ==
    {[text |-> <<"a">>, chars |-> <<"a">>],
     [text |-> <<"{">>, chars |-> <<"{">>],
     [text |-> <<"}">>, chars |-> <<"}">>],
     [text |-> <<"\\", "\"">>, chars |-> <<"\"">>],
     [text |-> <<"\\", "\\">>, chars |-> <<"\\">>],
     [text |-> <<VAR_NAME>>, chars |-> <<VAR_NAME>>]}

RECURSIVE Flatten(_, _)
Flatten(pieces, field) ==
    IF pieces = <<>> THEN <<>>
    ELSE pieces[1][field] \o Flatten(Tail(pieces), field)

\* JSON strings: their text and the value JSON.parse gives them
JsonStrings ==
    {[text |-> <<"\"">> \o Flatten(p, "text") \o <<"\"">>,
      value |-> [string |-> Flatten(p, "chars")]] :
        p \in SeqsUpTo(StringPieces, MaxPieces)}

JsonObjectOf(member) ==
    [text |-> <<"{", "\"", "a", "\"", ":">> \o member.text \o <<"}">>,
     value |-> [object |-> <<[key |-> <<"a">>, value |-> member.value]>>]]

EmptyJsonObject == [text |-> <<"{", "}">>, value |-> [object |-> <<>>]]

\* valid JSON objects: {}, {"a":string}, {"a":{}} and {"a":{"a":string}}
JsonObjects ==
    LET Flat == {EmptyJsonObject} \cup {JsonObjectOf(s) : s \in JsonStrings}
    IN  Flat \cup {JsonObjectOf(o) : o \in Flat}

\* texts that start with "{" and are not a JSON object: braces that never
\* balance, and balanced braces around something that is not JSON
BrokenObjects ==
    {<<"{">>,
     <<"{", "\"", "a", "\"", ":", "{", "}">>,
     <<"{", "\"", "a", "\"", ":", "\"", "}", "\"">>,
     <<"{", "\"", "a", "\"", ":", "\"", "\\", "\"", "}">>,
     <<"{", "a", "}">>,
     <<"{", "\"", "a", "\"", "}">>,
     <<"{", "\"", "a", "\"", ":", "\"", "\\", "a", "\"", "}">>,
     <<"{", "{", "}", "}">>}

\* the markup before the variable, between the variable and the object, and
\* after the object
PagePrefixes == {<<>>, <<"a", "{">>}

PageGaps == {<<>>, <<" = ">>, <<" = ", VAR_NAME, " = ">>}

PageRests == {<<>>, <<";">>, <<";", "}">>, <<";", "{", "}">>, <<";", VAR_NAME, " = ", "{", "}">>}

\* the pages given to the extractor, with the JSON object they were assembled
\* around when there is one
PageTexts ==
    {[rawHtml |-> prefix \o other, embedded |-> Null] :
        prefix \in PagePrefixes, other \in {<<>>, <<";">>, <<"{", "}">>}}
    \cup {[rawHtml |-> prefix \o <<VAR_NAME>> \o gap, embedded |-> Null] :
            prefix \in PagePrefixes, gap \in PageGaps}
    \cup {[rawHtml |-> prefix \o <<VAR_NAME>> \o gap \o broken \o rest,
           embedded |-> Null] :
            prefix \in PagePrefixes, gap \in PageGaps, broken \in BrokenObjects,
            rest \in PageRests}
    \cup {[rawHtml |-> prefix \o <<VAR_NAME>> \o gap \o object.text \o rest,
           embedded |-> object] :
            prefix \in PagePrefixes, gap \in PageGaps, object \in JsonObjects,
            rest \in PageRests}

(***************************************************************************)
(* transcripts.ts: JsVarParser.parse on the text of a page                 *)
(***************************************************************************)
YouTubeDataUnparsable(vid) == CouldNotRetrieveTranscript("YouTubeDataUnparsable", vid)

SyntaxError == [kind |-> "SyntaxError"]

\* JSON.parse on a text of the pieces above: an object is {} or
\* {string:value}, a value is a string or an object, and inside a string a
\* backslash is followed by a quote or a backslash. Each function reads one
\* construct from position i and tells where it ends.
JsonFail == [ok |-> FALSE]

RECURSIVE JsonString(_, _, _)
JsonString(s, i, chars) ==
    IF i > Len(s) THEN JsonFail
    ELSE IF s[i] = "\"" THEN [ok |-> TRUE, next |-> i + 1, value |-> [string |-> chars]]
    ELSE IF s[i] = "\\"
    THEN IF i + 1 <= Len(s) /\ s[i + 1] \in {"\"", "\\"}
         THEN JsonString(s, i + 2, Append(chars, s[i + 1]))
         ELSE JsonFail
    ELSE JsonString(s, i + 1, Append(chars, s[i]))

RECURSIVE JsonValue(_, _)
JsonValue(s, i) ==
    IF i > Len(s) THEN JsonFail
    ELSE IF s[i] = "\"" THEN JsonString(s, i + 1, <<>>)
    ELSE IF s[i] # "{" \/ i + 1 > Len(s) THEN JsonFail
    ELSE IF s[i + 1] = "}" THEN [ok |-> TRUE, next |-> i + 2, value |-> [object |-> <<>>]]
    ELSE IF s[i + 1] # "\"" THEN JsonFail
    ELSE LET key == JsonString(s, i + 2, <<>>)
         IN  IF ~key.ok THEN JsonFail
             ELSE IF key.next > Len(s) \/ s[key.next] # ":" THEN JsonFail
             ELSE LET member == JsonValue(s, key.next + 1)
                  IN  IF ~member.ok THEN JsonFail
                      ELSE IF member.next > Len(s) \/ s[member.next] # "}" THEN JsonFail
                      ELSE [ok |-> TRUE, next |-> member.next + 1,
                            value |-> [object |-> <<[key |-> key.value.string,
                                                     value |-> member.value]>>]]

JSON_parse(s) ==
    LET read == JsonValue(s, 1)
    IN  IF read.ok /\ read.next = Len(s) + 1 THEN Return(read.value)
        ELSE Throw(SyntaxError)

\* positions of the variable in the page
VarPositions(rawHtml) == {i \in 1..Len(rawHtml) : rawHtml[i] = VAR_NAME}

\* rawHtml.split(`var ${this.varName}`)[1]: the text between the first and
\* the second occurrence of the variable, or up to the end of the page
SplittedHtml1(rawHtml) ==
    LET Positions == VarPositions(rawHtml)
        first == CHOOSE p \in Positions : \A q \in Positions : p <= q
        Later == Positions \ {first}
        stop == IF Later = {} THEN Len(rawHtml) + 1
                ELSE CHOOSE p \in Later : \A q \in Later : p <= q
    IN  SubSeq(rawHtml, first + 1, stop - 1)

\* splittedHtml[1].substring(indexOf('{')), <<>> standing for indexOf = -1
JsonStrOf(segment) ==
    LET Braces == {i \in 1..Len(segment) : segment[i] = "{"}
    IN  IF Braces = {} THEN <<>>
        ELSE SubSeq(segment, CHOOSE i \in Braces : \A j \in Braces : i <= j, Len(segment))

\* the for loop over jsonStr: position i is the 1-based index of the piece
\* the loop looks at, the result is endIndex (0 when the loop runs out)
RECURSIVE ScanEnd(_, _, _, _, _, _)
ScanEnd(jsonStr, i, openBraces, closeBraces, inQuotes, escaped) ==
    IF i > Len(jsonStr) THEN 0
    ELSE IF escaped THEN ScanEnd(jsonStr, i + 1, openBraces, closeBraces, inQuotes, FALSE)
    ELSE IF jsonStr[i] = "\\"
    THEN ScanEnd(jsonStr, i + 1, openBraces, closeBraces, inQuotes, TRUE)
    ELSE IF jsonStr[i] = "\""
    THEN ScanEnd(jsonStr, i + 1, openBraces, closeBraces, ~inQuotes, FALSE)
    ELSE LET open == IF ~inQuotes /\ jsonStr[i] = "{" THEN openBraces + 1 ELSE openBraces
             close == IF ~inQuotes /\ jsonStr[i] = "}" THEN closeBraces + 1 ELSE closeBraces
         IN  IF open = close THEN i
             ELSE ScanEnd(jsonStr, i + 1, open, close, inQuotes, FALSE)

\* the catch block around JSON.parse letting the parser's own error through
ParseErrorRethrown(error, vid) == error

\* catch (e) { throw new YouTubeDataUnparsable(videoId) }
ParseError(error, vid) == YouTubeDataUnparsable(vid)

JsVarParser_parse(rawHtml, vid) ==
    IF VarPositions(rawHtml) = {}
    THEN Throw(YouTubeDataUnparsable(vid))
    ELSE LET jsonStr == JsonStrOf(SplittedHtml1(rawHtml))
         IN  IF jsonStr = <<>>
             THEN Throw(YouTubeDataUnparsable(vid))
             ELSE LET endIndex == ScanEnd(jsonStr, 2, 1, 0, FALSE, FALSE)
                  IN  IF endIndex = 0
                      THEN Throw(YouTubeDataUnparsable(vid))
                      ELSE LET parsed == JSON_parse(SubSeq(jsonStr, 1, endIndex))
                           IN  IF parsed.threw
                               THEN Throw(ParseError(parsed.error, vid))
                               ELSE parsed

(***************************************************************************)
(* JsVarSpec: the extractor applied to every page text                     *)
(***************************************************************************)
JsVarInit ==
    /\ Idle
    /\ OthersIdle("jsVar")
    /\ jvInput \in PageTexts
    /\ jvResult = Null

JsVarParse ==
    /\ jvInput # Null
    /\ jvResult = Null
    /\ jvResult' = JsVarParser_parse(jvInput.rawHtml, PlainId)
    /\ UNCHANGED <<jvInput, fetcherVars, pureVars>>
    /\ OthersUnchanged("jsVar")

JsVarNext == JsVarParse

JsVarSpec == JsVarInit /\ [][JsVarNext]_vars

(***************************************************************************)
(* Inputs of CliSpec: command lines, results of api.list and of fetch      *)
(***************************************************************************)
OtherId == <<"jNQXAC9IVRw">>

CliVideoIds == {PlainId, OtherId}

\* the proxy options of parsedArgs: none, the empty strings that are the
\* defaults of --http-proxy and --https-proxy, one of them, or a proxy URL
ProxyOptions ==
    {EmptyObject,
     [httpProxy |-> "", httpsProxy |-> ""],
     [httpProxy |-> ""],
     [httpProxy |-> "http://localhost:8080"]}

\* parsedArgs: the options the run reads (languages is <<"de", "en">>)
ParsedArgs ==
    {options @@ proxies :
        options \in [videoIds : SeqsUpTo(CliVideoIds, MaxVideos),
                     listTranscripts : BOOLEAN,
                     excludeManuallyCreated : BOOLEAN,
                     excludeGenerated : BOOLEAN,
                     translate : {"", "fr"},
                     format : {"json", "yaml", "constructor"}],
        proxies \in ProxyOptions}

CliLanguages == <<"de", "en">>

\* what api.list(videoId) settles with
CliListResults(vid) ==
    {Return(build(vid, [captionTracks |-> <<ManualEn>>,
                        translationLanguages |-> TranslationLanguagesFr])),
     Return(build(vid, [captionTracks |-> <<AsrDe>>])),
     Throw(CouldNotRetrieveTranscript("VideoUnavailable", vid))}

\* what httpClient.get of a track settles with
CliTrackResponses ==
    {Return(<<TextElement(<<"Hello">>, <<"0">>, <<"1.5">>)>>), Throw(NetworkError)}

(***************************************************************************)
(* cli.ts, formatters.ts: YouTubeTranscriptCli.run                         *)
(***************************************************************************)
\* FormatterLoader.TYPES
FormatterTypes == {"json", "pretty", "text", "webvtt", "srt"}

UnknownFormatterType(formatterType) ==
    [kind |-> "UnknownFormatterType", formatterType |-> formatterType]

InvalidProxyConfig == [kind |-> "InvalidProxyConfig"]

\* new GenericProxyConfig(parsedArgs.httpProxy ?? null, parsedArgs.httpsProxy
\* ?? null): the constructor throws when neither URL is truthy
NewGenericProxyConfig(parsedArgs) ==
    IF \/ Has(parsedArgs, "httpProxy") /\ Truthy(parsedArgs.httpProxy)
       \/ Has(parsedArgs, "httpsProxy") /\ Truthy(parsedArgs.httpsProxy)
    THEN Return(GenericProxyConfig)
    ELSE Throw(InvalidProxyConfig)

\* the proxy configuration run() builds before it creates the api: a
\* generic one when either proxy option is defined, replaced by a Webshare
\* one (with the default retry budget) when a Webshare option is defined
CliProxyConfig(parsedArgs) ==
    LET generic == IF Has(parsedArgs, "httpProxy") \/ Has(parsedArgs, "httpsProxy")
                   THEN NewGenericProxyConfig(parsedArgs)
                   ELSE Return(Null)
    IN  IF generic.threw
        THEN generic
        ELSE IF \/ Has(parsedArgs, "webshareProxyUsername")
                \/ Has(parsedArgs, "webshareProxyPassword")
        THEN Return(WebshareProxyConfig(10))
        ELSE generic

\* FormatterLoader.load: formatterType in TYPES holds for the inherited
\* names too; TYPES.constructor is Object and constructs a plain object,
\* the other inherited members are no constructors
FormatterLoaderLoad(formatterType) ==
    IF ~(formatterType \in FormatterTypes \/ formatterType \in ObjectPrototypeNames)
    THEN Throw(UnknownFormatterType(formatterType))
    ELSE IF formatterType \in FormatterTypes
    THEN Return([formatter |-> formatterType])
    ELSE IF formatterType = "constructor"
    THEN Return(EmptyObject)
    ELSE Throw(TypeError)

\* the find and translate calls of fetchTranscript, up to transcript.fetch()
CliSelect(parsedArgs, transcriptList) ==
    LET found ==
            IF parsedArgs.excludeManuallyCreated
            THEN findGeneratedTranscript(transcriptList, CliLanguages)
            ELSE IF parsedArgs.excludeGenerated
            THEN findManuallyCreatedTranscript(transcriptList, CliLanguages)
            ELSE findTranscript(transcriptList, CliLanguages)
    IN  IF found.threw THEN found
        ELSE IF parsedArgs.translate # ""
        THEN translate(found.value, parsedArgs.translate)
        ELSE found

\* printSections: exception.toString() of every failure, then the content
PrintSections(exceptions, content) ==
    [i \in 1..Len(exceptions) |-> [exception |-> exceptions[i]]] \o content

\* the part of run after the loop; the output is the sequence of the
\* sections that join("\n\n") puts together
CliRender(parsedArgs, transcripts, exceptions) ==
    IF Len(transcripts) = 0
    THEN Return(PrintSections(exceptions, <<>>))
    ELSE IF parsedArgs.listTranscripts
    THEN Return(PrintSections(exceptions,
                    [i \in 1..Len(transcripts) |-> [transcriptList |-> transcripts[i]]]))
    ELSE LET loaded == FormatterLoaderLoad(parsedArgs.format)
         IN  IF loaded.threw
             THEN loaded
             ELSE IF ~Has(loaded.value, "formatter")
             THEN Throw(TypeError)
             ELSE Return(PrintSections(exceptions,
                            <<[format |-> loaded.value.formatter,
                               transcripts |-> transcripts]>>))

(***************************************************************************)
(* CliSpec: one run of the command line tool; the results of api.list and  *)
(* of the track retrieval are inputs                                       *)
(***************************************************************************)
CliInit ==
    /\ Idle
    /\ OthersIdle("cli")
    /\ cliArgs \in ParsedArgs
    /\ cliPc = "start"
    /\ cliIndex = 0
    /\ cliInFlight = 0
    /\ cliTrack = Null
    /\ cliTranscripts = <<>>
    /\ cliExceptions = <<>>
    /\ cliOutput = Null

\* the loop goes on after the video at position cliIndex + 1 gave a result
\* or a failure: api.list of the next video is awaited, or the run ends
CliContinue(transcripts, exceptions) ==
    /\ cliTranscripts' = transcripts
    /\ cliExceptions' = exceptions
    /\ cliIndex' = cliIndex + 1
    /\ cliTrack' = Null
    /\ IF cliIndex + 1 < Len(cliArgs.videoIds)
       THEN /\ cliPc' = "list"
            /\ cliInFlight' = 1
            /\ cliOutput' = cliOutput
       ELSE /\ cliPc' = "done"
            /\ cliInFlight' = 0
            /\ cliOutput' = CliRender(cliArgs, transcripts, exceptions)

\* run() up to its first await
CliRun ==
    /\ cliArgs # Null
    /\ cliPc = "start"
    /\ IF cliArgs.excludeManuallyCreated /\ cliArgs.excludeGenerated
       THEN /\ cliPc' = "done"
            /\ cliOutput' = Return(<<>>)
            /\ cliInFlight' = 0
       ELSE IF CliProxyConfig(cliArgs).threw
       THEN /\ cliPc' = "done"
            /\ cliOutput' = CliProxyConfig(cliArgs)
            /\ cliInFlight' = 0
       ELSE IF Len(cliArgs.videoIds) = 0
       THEN /\ cliPc' = "done"
            /\ cliOutput' = CliRender(cliArgs, <<>>, <<>>)
            /\ cliInFlight' = 0
       ELSE /\ cliPc' = "list"
            /\ cliOutput' = cliOutput
            /\ cliInFlight' = 1
    /\ UNCHANGED <<cliArgs, cliIndex, cliTrack, cliTranscripts, cliExceptions>>
    /\ UNCHANGED <<fetcherVars, pureVars>>
    /\ OthersUnchanged("cli")

\* await api.list(videoId) settles
CliListSettles(vid, result) ==
    /\ cliPc = "list"
    /\ vid = cliArgs.videoIds[cliIndex + 1]
    /\ IF result.threw
       THEN CliContinue(cliTranscripts, Append(cliExceptions, result.error))
       ELSE IF cliArgs.listTranscripts
       THEN CliContinue(Append(cliTranscripts, result.value), cliExceptions)
       ELSE LET selected == CliSelect(cliArgs, result.value)
            IN  IF selected.threw
                THEN CliContinue(cliTranscripts, Append(cliExceptions, selected.error))
                ELSE /\ cliPc' = "fetch"
                     /\ cliTrack' = selected.value
                     /\ cliInFlight' = 1
                     /\ UNCHANGED <<cliIndex, cliTranscripts, cliExceptions, cliOutput>>
    /\ UNCHANGED cliArgs
    /\ UNCHANGED <<fetcherVars, pureVars>>
    /\ OthersUnchanged("cli")

\* await this.fetchTranscript(...) settles
CliFetchSettles(response) ==
    /\ cliPc = "fetch"
    /\ LET fetched == TrackOutcome(cliTrack, FALSE, response)
       IN  IF fetched.threw
           THEN CliContinue(cliTranscripts, Append(cliExceptions, fetched.error))
           ELSE CliContinue(Append(cliTranscripts, fetched.value), cliExceptions)
    /\ UNCHANGED cliArgs
    /\ UNCHANGED <<fetcherVars, pureVars>>
    /\ OthersUnchanged("cli")

CliNext ==
    \/ CliRun
    \/ \E vid \in CliVideoIds : \E result \in CliListResults(vid) :
          CliListSettles(vid, result)
    \/ \E response \in CliTrackResponses : CliFetchSettles(response)

CliSpec == CliInit /\ [][CliNext]_vars

(***************************************************************************)
(* Inputs of FormatSpec: fetched transcripts                               *)
(***************************************************************************)
\* A time in seconds that is a multiple of 1/5000 s, as the number of these
\* fifths of a millisecond: 10000 is 2 s, 9998 is 1.9996 s.
Fifths(n) == [fifths |-> n]

\* start times: 0, 3, 6, 1.9996 and 3661.5 seconds
SnippetStarts == {0, 15000, 30000, 9998, 18307500}

\* durations: 2 and 1.5 seconds
SnippetDurations == {10000, 7500}

SnippetTextOf(start) ==
    CASE start = 0 -> "First line"
      [] start = 15000 -> "Second line"
      [] start = 30000 -> "Third line"
      [] OTHER -> "Hello"

FormatSnippets ==
    {[text |-> SnippetTextOf(s), start |-> Fifths(s), duration |-> Fifths(d)] :
        s \in SnippetStarts, d \in SnippetDurations}

FormatTranscripts ==
    {[snippets |-> s, videoId |-> PlainId, language |-> "English",
      languageCode |-> "en", isGenerated |-> FALSE] :
        s \in SeqsUpTo(FormatSnippets, MaxSnippets)}

(***************************************************************************)
(* transcripts.ts: FetchedTranscript; formatters.ts: SRTFormatter          *)
(***************************************************************************)
\* toRawData with start and duration exchanged
toRawDataSwapped(t) ==
    [i \in 1..Len(t.snippets) |->
        [text |-> t.snippets[i].text, start |-> t.snippets[i].duration,
         duration |-> t.snippets[i].start]]

\* this.snippets.map(snippet => ({text, start, duration}))
toRawData(t) ==
    [i \in 1..Len(t.snippets) |->
        [text |-> t.snippets[i].text, start |-> t.snippets[i].start,
         duration |-> t.snippets[i].duration]]

\* [Symbol.iterator](): what a for-of loop over the transcript yields
Iterate(t) == t.snippets

RECURSIVE NumDigits(_)
NumDigits(n) == IF n < 10 THEN 1 ELSE 1 + NumDigits(n \div 10)

\* n.toString().padStart(width, '0'): the number and how many characters
\* the field takes
PadStart(n, width) == [value |-> n, digits |-> Max(width, NumDigits(n))]

\* SRTFormatter.formatTimestamp: HH:MM:SS,mmm
formatTimestamp(hours, mins, secs, ms) ==
    [hours |-> PadStart(hours, 2), mins |-> PadStart(mins, 2),
     secs |-> PadStart(secs, 2), separator |-> ",", ms |-> PadStart(ms, 3)]

\* TextBasedFormatter.secondsToTimestamp for a time that is not negative:
\* Math.floor of the whole seconds, Math.round of the fraction in
\* milliseconds (a fraction of k fifths is k / 5 ms, never half way)
secondsToTimestamp(time) ==
    LET whole == time.fifths \div 5000
        hours == whole \div 3600
        remainder == whole % 3600
        mins == remainder \div 60
        secs == remainder % 60
        ms == ((time.fifths % 5000) + 2) \div 5
    IN  formatTimestamp(hours, mins, secs, ms)

\* the loop body of formatTranscript and SRTFormatter.formatTranscriptHelper
SrtBlock(snippets, i) ==
    LET line == snippets[i]
        end == Fifths(line.start.fifths + line.duration.fifths)
        nextStart == IF i < Len(snippets) /\ snippets[i + 1].start.fifths < end.fifths
                     THEN snippets[i + 1].start
                     ELSE end
    IN  [number |-> i,
         from |-> secondsToTimestamp(line.start),
         to |-> secondsToTimestamp(nextStart),
         text |-> line.text]

\* SRTFormatter.formatTranscript: the blocks that formatTranscriptHeader
\* joins with empty lines
formatTranscript(t) == [i \in 1..Len(t.snippets) |-> SrtBlock(t.snippets, i)]

(***************************************************************************)
(* FormatSpec: toRawData, iteration and the SRT formatter on every         *)
(* transcript                                                              *)
(***************************************************************************)
FormatInit ==
    /\ Idle
    /\ OthersIdle("format")
    /\ fmInput \in FormatTranscripts
    /\ fmRaw = Null
    /\ fmIterated = Null
    /\ fmSrt = Null

ToRawData ==
    /\ fmInput # Null
    /\ fmRaw = Null
    /\ fmRaw' = Return(toRawData(fmInput))
    /\ UNCHANGED <<fmInput, fmIterated, fmSrt, fetcherVars, pureVars>>
    /\ OthersUnchanged("format")

ForOf ==
    /\ fmInput # Null
    /\ fmIterated = Null
    /\ fmIterated' = Return(Iterate(fmInput))
    /\ UNCHANGED <<fmInput, fmRaw, fmSrt, fetcherVars, pureVars>>
    /\ OthersUnchanged("format")

FormatSrt ==
    /\ fmInput # Null
    /\ fmSrt = Null
    /\ fmSrt' = Return(formatTranscript(fmInput))
    /\ UNCHANGED <<fmInput, fmRaw, fmIterated, fetcherVars, pureVars>>
    /\ OthersUnchanged("format")

FormatNext ==
    \/ ToRawData
    \/ ForOf
    \/ FormatSrt

FormatSpec == FormatInit /\ [][FormatNext]_vars

(***************************************************************************)
(* errors.ts: construction and rendering of CouldNotRetrieveTranscript     *)
(***************************************************************************)
\* WATCH_URL.replace("{video_id}", videoId)
WatchUrl(vid) == <<"https://www.youtube.com/watch?v=">> \o vid

YouTubeRequestFailed(vid, reason) ==
    [kind |-> "YouTubeRequestFailed", videoId |-> vid, reason |-> reason]

\* the classes whose cause is the static CAUSE_MESSAGE alone
PlainKinds ==
    {"YouTubeDataUnparsable", "VideoUnavailable", "InvalidVideoId",
     "TranscriptsDisabled", "AgeRestricted", "NotTranslatable",
     "TranslationLanguageNotAvailable", "FailedToCreateConsentCookie"}

\* the arguments the constructors are called with
RetrievalErrors ==
    UNION {
        {CouldNotRetrieveTranscript(kind, vid) :
            kind \in PlainKinds \cup {"CouldNotRetrieveTranscript"}}
        \cup {RequestBlocked(vid), IpBlocked(vid)}
        \cup {YouTubeRequestFailed(vid, <<"timeout of 1000ms exceeded">>)}
        \cup {VideoUnplayable(vid, psd, subReasons) :
                psd \in {EmptyObject, [reason |-> <<" (other text) ">>]},
                subReasons \in {<<>>, <<"detail">>, <<"detail", "">>}}
        \cup {NoTranscriptFound(vid, <<"fr">>, build(vid, captionsJson)) :
                captionsJson \in {EmptyObject, [captionTracks |-> <<ManualEn>>],
                                  [captionTracks |-> <<AsrDe>>]}}
        : vid \in VideoIds}

\* get cause() of the error's class: the template and what replaces its
\* placeholders
cause(e) ==
    CASE e.kind = "VideoUnplayable" ->
            [template |-> CAUSE_MESSAGE(e),
             reason |-> IF Has(e, "reason") THEN e.reason ELSE <<"No reason specified!">>,
             sub_reasons |-> e.subReasons]
      [] e.kind = "NoTranscriptFound" ->
            [template |-> CAUSE_MESSAGE(e),
             requested_language_codes |-> e.requestedLanguageCodes,
             transcript_data |-> e.transcriptData]
      [] e.kind = "YouTubeRequestFailed" ->
            [template |-> CAUSE_MESSAGE(e), reason |-> e.reason]
      [] e.kind \in {"RequestBlocked", "IpBlocked"} ->
            [template |-> RequestBlockedCause(e)]
      [] OTHER -> [template |-> CAUSE_MESSAGE(e)]

\* CouldNotRetrieveTranscript._buildErrorMessage: the intro and the
\* referral are appended only when the cause is not the empty string
BuildErrorMessage(e) ==
    <<[template |-> "ERROR_MESSAGE", video_url |-> WatchUrl(e.videoId)]>>
    \o (IF cause(e).template # <<>>
        THEN <<[template |-> "CAUSE_MESSAGE_INTRO", cause |-> cause(e)],
               [template |-> "GITHUB_REFERRAL"]>>
        ELSE <<>>)

\* this._buildErrorMessage() on an object whose prototype is the given
\* class: YouTubeTranscriptApiException has the fallback that returns
\* this.message
DispatchBuildErrorMessage(prototype, e, message) ==
    IF prototype = "YouTubeTranscriptApiException"
    THEN message
    ELSE BuildErrorMessage(e)

\* the message assigned by the CouldNotRetrieveTranscript constructor:
\* super("") has set the message to "" and the prototype to
\* YouTubeTranscriptApiException.prototype (Object.setPrototypeOf, line 13),
\* and the constructors of the subclasses assign the message no more
ConstructedMessage(e) ==
    DispatchBuildErrorMessage("YouTubeTranscriptApiException", e, <<>>)

\* Error.prototype.toString: the name, and the message when it is not empty
ErrorToString(name, message) == [name |-> name, message |-> message]

(***************************************************************************)
(* RenderSpec: an error is constructed, a blocked one may be annotated,    *)
(* and the user is shown its message and string form                       *)
(***************************************************************************)
RenderInit ==
    /\ Idle
    /\ OthersIdle("render")
    /\ \E e \in RetrievalErrors :
        /\ rnError = Return(e)
        /\ rnMessage = Return(ConstructedMessage(e))
    /\ rnAnnotated = FALSE
    /\ rnShown = Null

\* error.withProxyConfig(this.proxyConfig) in fetchCaptionsJson
WithProxyConfig(cfg) ==
    /\ rnError # Null
    /\ rnShown = Null
    /\ ~rnAnnotated
    /\ InstanceOfRequestBlocked(rnError.value)
    /\ rnError' = Return(withProxyConfig(rnError.value, cfg))
    /\ rnAnnotated' = TRUE
    /\ UNCHANGED <<rnMessage, rnShown, fetcherVars, pureVars>>
    /\ OthersUnchanged("render")

\* error.message (cli-main.ts) and exception.toString() (cli.ts)
Render ==
    /\ rnError # Null
    /\ rnShown = Null
    /\ rnShown' = Return([message |-> rnMessage.value,
                          string |-> ErrorToString(rnError.value.kind, rnMessage.value)])
    /\ UNCHANGED <<rnError, rnMessage, rnAnnotated, fetcherVars, pureVars>>
    /\ OthersUnchanged("render")

RenderNext ==
    \/ \E cfg \in ProxyConfigs : WithProxyConfig(cfg)
    \/ Render

RenderSpec == RenderInit /\ [][RenderNext]_vars

(***************************************************************************)
(* api.ts: YouTubeTranscriptApi.getTranscripts                             *)
(***************************************************************************)
ThirdId == <<"9bZkp7q19f0">>

\* a video id that names the prototype accessor of Object.prototype
ProtoId == <<"__proto__">>

BatchVideoIds == {PlainId, OtherId, ThirdId, ProtoId}

\* the arguments of getTranscripts that its loop depends on
BatchArgs ==
    [videoIds : SeqsUpTo(BatchVideoIds, MaxVideos), continueAfterError : BOOLEAN]

\* what await api.fetch(videoId, languages, preserveFormatting) yields: a
\* fetched transcript, or the error of listing, finding or fetching
BatchFetchResults(vid) ==
    {Return(FetchedTranscript(s, vid, "English", "en", FALSE)) :
        s \in {<<>>, <<[text |-> "Hello", start |-> Fifths(0), duration |-> Fifths(7500)]>>}}
    \cup {Throw(CouldNotRetrieveTranscript("TranscriptsDisabled", vid)),
          Throw(NoTranscriptFound(vid, <<"en">>, build(vid, EmptyObject))),
          Throw(NetworkError)}

\* if (!continueAfterError) throw error
Rethrows(continueAfterError) == ~continueAfterError

\* data[videoId] = transcript.toRawData() on the plain object data: the
\* assignment to "__proto__" runs the setter of Object.prototype, which
\* replaces the prototype of data and gives it no key of its own
SetKey(data, key, value) ==
    IF key = ProtoId THEN data ELSE (key :> value) @@ data

(***************************************************************************)
(* BatchSpec: one getTranscripts call                                      *)
(***************************************************************************)
BatchInit ==
    /\ Idle
    /\ OthersIdle("batch")
    /\ btArgs \in BatchArgs
    /\ btPc = "start"
    /\ btData = EmptyObject
    /\ btUnretrievable = <<>>
    /\ btAttempted = <<>>
    /\ btSettled = <<>>
    /\ btOutcome = Null

\* the for loop reaches its next videoId, or its end
BatchContinue(data, unretrievableVideos) ==
    IF Len(btAttempted) < Len(btArgs.videoIds)
    THEN /\ btPc' = "fetch"
         /\ btAttempted' = Append(btAttempted, btArgs.videoIds[Len(btAttempted) + 1])
         /\ btOutcome' = btOutcome
    ELSE /\ btPc' = "done"
         /\ btAttempted' = btAttempted
         /\ btOutcome' = Return([data |-> data, unretrievableVideos |-> unretrievableVideos])

\* getTranscripts is called and runs up to its first await
GetTranscripts ==
    /\ btArgs # Null
    /\ btPc = "start"
    /\ BatchContinue(btData, btUnretrievable)
    /\ UNCHANGED <<btArgs, btData, btUnretrievable, btSettled, fetcherVars, pureVars>>
    /\ OthersUnchanged("batch")

\* the awaited api.fetch settles; the loop body ends and the loop goes on
\* to its next await, returns or rethrows
BatchFetchSettles(vid, result) ==
    /\ btPc = "fetch"
    /\ vid = btAttempted[Len(btAttempted)]
    /\ btSettled' = Append(btSettled, result)
    /\ IF ~result.threw
       THEN /\ btData' = SetKey(btData, vid, toRawData(result.value))
            /\ btUnretrievable' = btUnretrievable
            /\ BatchContinue(btData', btUnretrievable')
       ELSE IF Rethrows(btArgs.continueAfterError)
       THEN /\ btPc' = "done"
            /\ btOutcome' = Throw(result.error)
            /\ UNCHANGED <<btData, btUnretrievable, btAttempted>>
       ELSE /\ btData' = btData
            /\ btUnretrievable' = Append(btUnretrievable, vid)
            /\ BatchContinue(btData', btUnretrievable')
    /\ UNCHANGED <<btArgs, fetcherVars, pureVars>>
    /\ OthersUnchanged("batch")

BatchNext ==
    \/ GetTranscripts
    \/ \E vid \in BatchVideoIds : \E result \in BatchFetchResults(vid) :
            BatchFetchSettles(vid, result)

BatchSpec == BatchInit /\ [][BatchNext]_vars

(***************************************************************************)
(* Retry policy of list discovery (Spec)                                   *)
(***************************************************************************)

\* C1: whenever a blocked error (request-blocked or ip-blocked) reaches the
\* caller of list discovery and the proxy configuration's retriesWhenBlocked
\* is greater than zero, the discovery sequence was re-run at least once,
\* i.e. at least two attempts were made.
C1_BlockedRerunWhenRetriesPositive ==
    (/\ pc = "done"
     /\ outcome.threw
     /\ outcome.error.kind \in {"RequestBlocked", "IpBlocked"}
     /\ proxyConfig # Null
     /\ retriesWhenBlocked(proxyConfig) > 0)
    => attempts >= 2

\* C2: the retry loop is bounded. With retry limit R (0 without a proxy
\* configuration) a call runs at most max(1, R) discovery sequences, the
\* attempt counter is the number of re-runs and never exceeds R, a call all
\* of whose attempts were blocked ends by raising the blocked error, and
\* with R = 0 a finished call has made exactly one attempt. Every step of a
\* pending call either ends the call, or issues the second fetch of the same
\* attempt, or starts a re-run that raises the attempt counter by exactly one.
C2_RetryLoopBounded ==
    /\ [](/\ attempts <= Max(1, IF proxyConfig = Null THEN 0
                                ELSE retriesWhenBlocked(proxyConfig))
          /\ tryNumber <= (IF proxyConfig = Null THEN 0
                           ELSE retriesWhenBlocked(proxyConfig))
          /\ pc # "idle" => tryNumber = attempts - 1
          /\ (/\ pc = "done"
              /\ Len(caught) = attempts
              /\ \A i \in 1..Len(caught) :
                   caught[i].kind \in {"RequestBlocked", "IpBlocked"})
             => /\ outcome.threw
                /\ outcome.error.kind = caught[attempts].kind
                /\ attempts = Max(1, IF proxyConfig = Null THEN 0
                                     ELSE retriesWhenBlocked(proxyConfig))
          /\ (/\ pc = "done"
              /\ proxyConfig # Null => retriesWhenBlocked(proxyConfig) = 0)
             => attempts = 1)
    /\ [][/\ pc \in {"fetch1", "fetch2"} /\ pc' = "done"
             => tryNumber' = tryNumber /\ attempts' = attempts
          /\ pc \in {"fetch1", "consent", "fetch2"} /\ pc' \in {"consent", "fetch2"}
             => /\ <<pc, pc'>> \in {<<"fetch1", "consent">>, <<"consent", "fetch2">>}
                /\ tryNumber' = tryNumber
                /\ attempts' = attempts
          /\ pc \in {"fetch1", "consent", "fetch2"} /\ pc' = "fetch1"
             => /\ pc # "consent"
                /\ tryNumber' = tryNumber + 1
                /\ attempts' = attempts + 1
          /\ pc \in {"fetch1", "consent", "fetch2"}
             => pc' \in {"fetch1", "consent", "fetch2", "done"}]_vars

\* C2 witness: a call under retry limit MaxRetries whose attempts were all
\* blocked has ended with the blocked error after MaxRetries sequences.
C2_Witness ==
    /\ pc = "done"
    /\ proxyConfig = WebshareProxyConfig(MaxRetries)
    /\ attempts = MaxRetries
    /\ Len(caught) = MaxRetries
    /\ outcome.threw
    /\ outcome.error.kind = "RequestBlocked"

\* C3: a failure that is not request-blocked or ip-blocked is never followed
\* by another attempt: it is the last error caught, the call is over, the
\* caller receives exactly that error, and when it is the failure of the
\* first attempt the call made exactly one attempt, whatever the retry limit.
C3_NonBlockedNeverRetried ==
    /\ \A i \in 1..Len(caught) :
         caught[i].kind \notin {"RequestBlocked", "IpBlocked"}
         => /\ i = Len(caught)
            /\ pc = "done"
            /\ outcome = Throw(caught[i])
    /\ (Len(caught) >= 1 /\ caught[1].kind \notin {"RequestBlocked", "IpBlocked"})
       => attempts = 1

\* C3 witness: under a retry limit of at least two, video-unavailable reached
\* the caller after a single attempt.
C3_Witness ==
    /\ pc = "done"
    /\ proxyConfig # Null
    /\ retriesWhenBlocked(proxyConfig) >= 2
    /\ outcome.threw
    /\ outcome.error = CouldNotRetrieveTranscript("VideoUnavailable", videoId)
    /\ attempts = 1

\* C4: a blocked error that reaches the caller carries the fetcher's proxy
\* configuration, and its cause is the Webshare text under a Webshare
\* configuration, the generic-proxy text under a generic one, and the
\* CAUSE_MESSAGE of its own kind without a proxy configuration.
C4_BlockedErrorAnnotated ==
    (/\ pc = "done"
     /\ outcome.threw
     /\ outcome.error.kind \in {"RequestBlocked", "IpBlocked"})
    => /\ outcome.error.proxyConfig = proxyConfig
       /\ RequestBlockedCause(outcome.error) =
            IF proxyConfig = Null
            THEN <<outcome.error.kind, "CAUSE_MESSAGE">>
            ELSE IF proxyConfig.type = "WebshareProxyConfig"
            THEN <<"RequestBlocked", "WITH_WEBSHARE_PROXY_CAUSE_MESSAGE">>
            ELSE <<"RequestBlocked", "WITH_GENERIC_PROXY_CAUSE_MESSAGE">>

\* C4 witness: retries are exhausted under a Webshare configuration and the
\* ip-blocked error delivered renders the Webshare cause.
C4_Witness ==
    /\ pc = "done"
    /\ proxyConfig = WebshareProxyConfig(2)
    /\ attempts = 2
    /\ outcome.threw
    /\ outcome.error.kind = "IpBlocked"
    /\ RequestBlockedCause(outcome.error) =
         <<"RequestBlocked", "WITH_WEBSHARE_PROXY_CAUSE_MESSAGE">>

(***************************************************************************)
(* One discovery attempt (Spec)                                            *)
(***************************************************************************)

\* C5: an attempt issues at most two watch-page fetches. The second fetch is
\* issued only from the first response, when that page includes the consent
\* form marker and a consent value was found and set as the client's cookie
\* header; a second page that still includes the marker, or a first page
\* with the marker and no value, ends the call with failed-consent-cookie.
C5_AtMostTwoFetches ==
    /\ [](/\ fetches <= 2
          /\ pc = "fetch1" => fetches = 1
          /\ pc \in {"consent", "fetch2"} =>
                /\ fetches = (IF pc = "consent" THEN 1 ELSE 2)
                /\ CONSENT_FORM \in html.includes
                /\ Has(html, "v")
                /\ cookie = <<"CONSENT=YES+", html.v>>)
    /\ [][/\ pc' = "fetch2" => pc \in {"consent", "fetch2"}
          /\ pc' = "consent" => pc \in {"fetch1", "consent"}
          /\ (pc = "fetch2" /\ html' # Null /\ CONSENT_FORM \in html'.includes)
             => /\ pc' = "done"
                /\ outcome' = Throw(CouldNotRetrieveTranscript(
                                  "FailedToCreateConsentCookie", videoId))
                /\ fetches' = 2
          /\ (pc = "fetch1" /\ html' # Null /\ CONSENT_FORM \in html'.includes
                 /\ ~Has(html', "v"))
             => /\ pc' = "done"
                /\ outcome' = Throw(CouldNotRetrieveTranscript(
                                  "FailedToCreateConsentCookie", videoId))
                /\ fetches' = 1
          /\ (pc = "fetch1" /\ html' # Null /\ CONSENT_FORM \notin html'.includes)
             => pc' \notin {"consent", "fetch2"}]_vars

\* C5 witness: the interstitial persisted on the second fetch and the call
\* failed with failed-consent-cookie after two fetches, the cookie being set.
C5_Witness ==
    /\ pc = "done"
    /\ fetches = 2
    /\ cookie # <<>>
    /\ html # Null
    /\ CONSENT_FORM \in html.includes
    /\ outcome = Throw(CouldNotRetrieveTranscript("FailedToCreateConsentCookie", videoId))

\* C6: for a page (past the consent check) from which no configuration
\* object can be extracted, the attempt fails with ip-blocked if the page
\* includes the CAPTCHA marker and with the original data-unparsable error,
\* delivered to the caller, if it does not; a page whose configuration
\* object parses never yields ip-blocked.
C6_CaptchaDecidesIpBlocked ==
    (pc \in {"fetch1", "done"} /\ html # Null /\ CONSENT_FORM \notin html.includes)
    => LET failed == pc = "fetch1" \/ outcome.threw
           error == caught[Len(caught)]
       IN  /\ ~Has(html, "ytInitialPlayerResponse")
              => /\ failed
                 /\ error.kind = IF G_RECAPTCHA \in html.includes
                                 THEN "IpBlocked" ELSE "YouTubeDataUnparsable"
                 /\ error.kind = "YouTubeDataUnparsable"
                    => /\ pc = "done"
                       /\ outcome = Throw([kind |-> "YouTubeDataUnparsable",
                                           videoId |-> videoId])
           /\ Has(html, "ytInitialPlayerResponse")
              => ~(failed /\ error.kind = "IpBlocked")

\* C6 witness: an unparsable page with the CAPTCHA marker raised ip-blocked,
\* and the retry policy started a second attempt.
C6_Witness ==
    /\ pc = "fetch1"
    /\ tryNumber = 1
    /\ html # Null
    /\ ~Has(html, "ytInitialPlayerResponse")
    /\ G_RECAPTCHA \in html.includes
    /\ caught[1].kind = "IpBlocked"

\* C10: on a playable configuration, list discovery fails with
\* transcripts-disabled when the captions container or its track list is
\* missing and also when the track list is present but empty; a
\* TranscriptList is returned only when there is at least one caption track.
C10_EmptyTrackListDisabled ==
    (/\ pc = "done"
     /\ html # Null
     /\ CONSENT_FORM \notin html.includes
     /\ Has(html, "ytInitialPlayerResponse")
     /\ \/ ~Has(html.ytInitialPlayerResponse, "playabilityStatus")
        \/ html.ytInitialPlayerResponse.playabilityStatus = [status |-> "OK"])
    => LET videoData == html.ytInitialPlayerResponse
           tracks == IF Has(videoData, "captions")
                        /\ Has(videoData.captions, "captionTracks")
                     THEN videoData.captions.captionTracks
                     ELSE <<>>
       IN  /\ tracks = <<>>
              => outcome = Throw([kind |-> "TranscriptsDisabled", videoId |-> videoId])
           /\ ~outcome.threw => tracks # <<>>

(***************************************************************************)
(* Availability classifier (ClassifySpec)                                  *)
(***************************************************************************)

\* C7: on the exact reason strings, LOGIN_REQUIRED with the bot phrase
\* raises request-blocked, LOGIN_REQUIRED with the age phrase raises
\* age-restricted, and ERROR with "Video unavailable" raises
\* invalid-video-id when the id starts with http:// or https:// and
\* video-unavailable otherwise.
C7_ExactReasonRows ==
    clsResult # Null
    => LET psd == clsInput.playabilityStatusData
           vid == clsInput.videoId
           Row(status, phrase) ==
               /\ Has(psd, "status") /\ psd.status = status
               /\ Has(psd, "reason") /\ psd.reason = phrase
       IN  /\ Row("LOGIN_REQUIRED", BOT_DETECTED)
              => clsResult = Throw([kind |-> "RequestBlocked", videoId |-> vid,
                                    proxyConfig |-> Null])
           /\ Row("LOGIN_REQUIRED", AGE_RESTRICTED)
              => clsResult = Throw([kind |-> "AgeRestricted", videoId |-> vid])
           /\ Row("ERROR", VIDEO_UNAVAILABLE)
              => clsResult = Throw([kind |-> IF vid[1] \in {"http://", "https://"}
                                             THEN "InvalidVideoId"
                                             ELSE "VideoUnavailable",
                                    videoId |-> vid])

\* C7 witness: ERROR / "Video unavailable" was classified for an id that
\* contains https:// without starting with it, and for a URL-shaped id.
C7_Witness ==
    /\ clsResult # Null
    /\ clsInput.playabilityStatusData = [status |-> "ERROR", reason |-> VIDEO_UNAVAILABLE]
    /\ clsInput.videoId = <<"youtu.be/dQw4w9WgXcQ?u=", "https://">>
    /\ clsResult.threw
    /\ clsResult.error.kind = "VideoUnavailable"

\* C8 as stated: under the listed status, every reason that contains the key
\* phrase as a substring raises the row's error, not video-unplayable.
C8_ReasonContainsPhrase ==
    clsResult # Null
    => LET psd == clsInput.playabilityStatusData
           Contains(status, phrase) ==
               /\ Has(psd, "status") /\ psd.status = status
               /\ Has(psd, "reason")
               /\ \E i \in 1..Len(psd.reason) : psd.reason[i] = phrase[1]
       IN  /\ Contains("LOGIN_REQUIRED", BOT_DETECTED)
              => clsResult.threw /\ clsResult.error.kind = "RequestBlocked"
           /\ (Contains("LOGIN_REQUIRED", AGE_RESTRICTED)
                  /\ ~Contains("LOGIN_REQUIRED", BOT_DETECTED))
              => clsResult.threw /\ clsResult.error.kind = "AgeRestricted"
           /\ Contains("ERROR", VIDEO_UNAVAILABLE)
              => /\ clsResult.threw
                 /\ clsResult.error.kind \in {"VideoUnavailable", "InvalidVideoId"}

\* C8 amended: the decision table matches on the reason being exactly the
\* key phrase. Under the listed status a reason equal to the phrase raises
\* the row's error, and a reason that contains the phrase together with
\* extra text before or after it raises video-unplayable carrying that
\* reason.
C8_ReasonEqualsPhrase ==
    clsResult # Null
    => LET psd == clsInput.playabilityStatusData
           Contains(status, phrase) ==
               /\ Has(psd, "status") /\ psd.status = status
               /\ Has(psd, "reason")
               /\ \E i \in 1..Len(psd.reason) : psd.reason[i] = phrase[1]
           Decides(status, phrase, kinds) ==
               Contains(status, phrase)
               => /\ clsResult.threw
                  /\ IF psd.reason = phrase
                     THEN clsResult.error.kind \in kinds
                     ELSE /\ clsResult.error.kind = "VideoUnplayable"
                          /\ clsResult.error.reason = psd.reason
       IN  /\ Decides("LOGIN_REQUIRED", BOT_DETECTED, {"RequestBlocked"})
           /\ Decides("LOGIN_REQUIRED", AGE_RESTRICTED, {"AgeRestricted"})
           /\ Decides("ERROR", VIDEO_UNAVAILABLE, {"VideoUnavailable", "InvalidVideoId"})

\* C8 witness: LOGIN_REQUIRED with text in front of the bot phrase was
\* classified as video-unplayable.
C8_Witness ==
    /\ clsResult # Null
    /\ Has(clsInput.playabilityStatusData, "status")
    /\ clsInput.playabilityStatusData.status = "LOGIN_REQUIRED"
    /\ Has(clsInput.playabilityStatusData, "reason")
    /\ clsInput.playabilityStatusData.reason = <<" (other text) ">> \o BOT_DETECTED
    /\ clsResult.threw
    /\ clsResult.error.kind = "VideoUnplayable"

\* C9: the classifier raises an error if and only if the playability status
\* is present and different from OK, and every such status that matches none
\* of the three specific rows raises video-unplayable carrying the raw
\* reason and the text fields of the sub-reason runs (none when the runs are
\* absent).
C9_ErrorIffStatusNotOk ==
    clsResult # Null
    => LET psd == clsInput.playabilityStatusData
           vid == clsInput.videoId
           notOk == Has(psd, "status") /\ psd.status # "OK"
           Row(status, phrase) ==
               /\ psd.status = status
               /\ Has(psd, "reason") /\ psd.reason = phrase
           runs == IF Has(psd, "runs") THEN psd.runs ELSE <<>>
           texts == [i \in 1..Len(runs) |->
                        IF Has(runs[i], "text") THEN runs[i].text ELSE ""]
       IN  /\ clsResult.threw <=> notOk
           /\ (/\ notOk
               /\ ~Row("LOGIN_REQUIRED", BOT_DETECTED)
               /\ ~Row("LOGIN_REQUIRED", AGE_RESTRICTED)
               /\ ~Row("ERROR", VIDEO_UNAVAILABLE))
              => /\ clsResult.threw
                 /\ clsResult.error.kind = "VideoUnplayable"
                 /\ clsResult.error.videoId = vid
                 /\ clsResult.error.subReasons = texts
                 /\ IF Has(psd, "reason")
                    THEN /\ Has(clsResult.error, "reason")
                         /\ clsResult.error.reason = psd.reason
                    ELSE ~Has(clsResult.error, "reason")

(***************************************************************************)
(* TranscriptList.build (ListSpec)                                         *)
(***************************************************************************)

\* C11 as stated: for every TranscriptList produced by build, including one
\* built from a manual and an auto-generated track with the same language
\* code, the key sets of manuallyCreatedTranscripts and generatedTranscripts
\* are disjoint.
C11_MappingsDisjoint ==
    lsList # Null =>
        OwnKeys(lsList.manuallyCreatedTranscripts)
            \cap OwnKeys(lsList.generatedTranscripts) = {}

\* C11 amended: the two mappings partition the tracks by kind, not the
\* language codes. Every Transcript of the manual mapping is not generated,
\* every Transcript of the generated mapping is generated, the key of each
\* is its own language code, and a language code that is a key of one
\* mapping is a key of both exactly when the video has both an asr track
\* and a non-asr track of that language.
C11_TracksPartitionedByKind ==
    lsList # Null =>
        LET tracks == IF "captionTracks" \in DOMAIN lsCaptions
                      THEN lsCaptions.captionTracks ELSE <<>>
            Asr(i) == "kind" \in DOMAIN tracks[i] /\ tracks[i].kind = "asr"
            AsrCodes == {tracks[i].languageCode : i \in {j \in 1..Len(tracks) : Asr(j)}}
            OtherCodes == {tracks[i].languageCode : i \in {j \in 1..Len(tracks) : ~Asr(j)}}
            manual == lsList.manuallyCreatedTranscripts
            generated == lsList.generatedTranscripts
        IN  /\ \A code \in OwnKeys(manual) :
                 ~manual[code].isGenerated /\ manual[code].languageCode = code
            /\ \A code \in OwnKeys(generated) :
                 generated[code].isGenerated /\ generated[code].languageCode = code
            /\ \A code \in OwnKeys(manual) \cup OwnKeys(generated) :
                 code \in OwnKeys(manual) \cap OwnKeys(generated)
                    <=> code \in AsrCodes \cap OtherCodes

\* a list built from a manual and an auto-generated track of one language
C11_Witness ==
    /\ lsList # Null
    /\ "en" \in OwnKeys(lsList.manuallyCreatedTranscripts)
    /\ "en" \in OwnKeys(lsList.generatedTranscripts)

\* C12: build maps each caption track to a Transcript stored under the
\* track's own language code: a track of kind "asr" goes to the generated
\* mapping with isGenerated = TRUE, every other track to the manual mapping
\* with isGenerated = FALSE, and its translation set is the global
\* translation-language list when the track is marked translatable and empty
\* otherwise. (Of several tracks of one kind and language the mapping holds
\* the last.)
C12_BuildFilesTracksByKind ==
    lsList # Null =>
        LET tracks == IF "captionTracks" \in DOMAIN lsCaptions
                      THEN lsCaptions.captionTracks ELSE <<>>
            global == IF "translationLanguages" \in DOMAIN lsCaptions
                      THEN [i \in 1..Len(lsCaptions.translationLanguages) |->
                              [language |-> lsCaptions.translationLanguages[i].languageName,
                               languageCode |-> lsCaptions.translationLanguages[i].languageCode]]
                      ELSE <<>>
            Asr(i) == "kind" \in DOMAIN tracks[i] /\ tracks[i].kind = "asr"
            Replaced(i) == \E j \in (i + 1)..Len(tracks) :
                              /\ Asr(j) = Asr(i)
                              /\ tracks[j].languageCode = tracks[i].languageCode
            Mapping(i) == IF Asr(i) THEN lsList.generatedTranscripts
                          ELSE lsList.manuallyCreatedTranscripts
        IN  /\ \A i \in 1..Len(tracks) :
                 /\ tracks[i].languageCode \in OwnKeys(Mapping(i))
                 /\ ~Replaced(i) =>
                      Mapping(i)[tracks[i].languageCode] =
                        [videoId |-> PlainId,
                         url |-> tracks[i].baseUrl,
                         language |-> tracks[i].name,
                         languageCode |-> tracks[i].languageCode,
                         isGenerated |-> Asr(i),
                         translationLanguages |->
                            IF tracks[i].isTranslatable THEN global ELSE <<>>]
            /\ OwnKeys(lsList.generatedTranscripts) =
                 {tracks[i].languageCode : i \in {j \in 1..Len(tracks) : Asr(j)}}
            /\ OwnKeys(lsList.manuallyCreatedTranscripts) =
                 {tracks[i].languageCode : i \in {j \in 1..Len(tracks) : ~Asr(j)}}

(***************************************************************************)
(* TranscriptList.find* (ListSpec)                                         *)
(***************************************************************************)

\* C13: findTranscript(codes) returns the track of the earliest code of the
\* preference list that is a key of either mapping, and for that code the
\* manual track when there is one, the generated track otherwise. With
\* codes = <<"de", "en">>, a manual "en" only and a generated "de" only, it
\* returns the generated "de" track.
C13_EarliestCodeManualFirst ==
    (lsFind # Null /\ lsFind.method = "findTranscript") =>
        LET codes == lsFind.languageCodes
            manual == lsList.manuallyCreatedTranscripts
            generated == lsList.generatedTranscripts
            Present == {i \in 1..Len(codes) :
                          codes[i] \in OwnKeys(manual) \cup OwnKeys(generated)}
        IN  /\ \A i \in Present :
                 (\A j \in Present : i <= j) =>
                    /\ ~lsFind.result.threw
                    /\ lsFind.result.value =
                         IF codes[i] \in OwnKeys(manual)
                         THEN manual[codes[i]] ELSE generated[codes[i]]
            /\ (/\ codes = <<"de", "en">>
                /\ DOMAIN manual = {"en"}
                /\ DOMAIN generated = {"de"}) =>
                    /\ ~lsFind.result.threw
                    /\ lsFind.result.value.languageCode = "de"
                    /\ lsFind.result.value.isGenerated

\* C14: findTranscript, findGeneratedTranscript and
\* findManuallyCreatedTranscript fail exactly when none of the requested
\* codes is a key of a mapping they search, and then with no-transcript-found
\* carrying the requested codes and the list; the generated-only variant
\* searches the generated mapping only, the manual-only variant the manual
\* mapping only, findTranscript both.
C14_NoTranscriptFoundIffNoKey ==
    lsFind # Null =>
        LET codes == lsFind.languageCodes
            Searched ==
                CASE lsFind.method = "findTranscript" ->
                        OwnKeys(lsList.manuallyCreatedTranscripts)
                            \cup OwnKeys(lsList.generatedTranscripts)
                  [] lsFind.method = "findGeneratedTranscript" ->
                        OwnKeys(lsList.generatedTranscripts)
                  [] lsFind.method = "findManuallyCreatedTranscript" ->
                        OwnKeys(lsList.manuallyCreatedTranscripts)
            NoKey == \A i \in 1..Len(codes) : codes[i] \notin Searched
        IN  /\ lsFind.result.threw <=> NoKey
            /\ lsFind.result.threw =>
                 /\ lsFind.result.error.kind = "NoTranscriptFound"
                 /\ lsFind.result.error.videoId = lsList.videoId
                 /\ lsFind.result.error.requestedLanguageCodes = codes
                 /\ lsFind.result.error.transcriptData = lsList
            /\ ~lsFind.result.threw =>
                 /\ "languageCode" \in DOMAIN lsFind.result.value
                 /\ lsFind.result.value.languageCode \in Searched
                 /\ lsFind.method = "findGeneratedTranscript"
                      => lsFind.result.value.isGenerated
                 /\ lsFind.method = "findManuallyCreatedTranscript"
                      => ~lsFind.result.value.isGenerated

(***************************************************************************)
(* Transcript.translate (ListSpec)                                         *)
(***************************************************************************)

\* C15: translate(code) fails with not-translatable whenever the receiver's
\* translation set is empty, whatever the code; with
\* translation-language-unavailable when the set is not empty and code is
\* not in it; and succeeds only when code is in the set.
C15_TranslateErrors ==
    (lsTranslate # Null /\ "translationLanguages" \in DOMAIN lsTranslate.receiver) =>
        LET languages == lsTranslate.receiver.translationLanguages
            InSet == \E i \in 1..Len(languages) :
                        languages[i].languageCode = lsTranslate.languageCode
            result == lsTranslate.result
        IN  /\ Len(languages) = 0 =>
                 result.threw /\ result.error.kind = "NotTranslatable"
            /\ (Len(languages) > 0 /\ ~InSet) =>
                 result.threw /\ result.error.kind = "TranslationLanguageNotAvailable"
            /\ ~result.threw <=> InSet
            /\ result.threw => result.error.videoId = lsTranslate.receiver.videoId

\* C16: a successful translate(code) leaves the receiver unchanged and
\* returns a new Transcript with the receiver's video id, the receiver's URL
\* followed by "&tlang=" and the code, languageCode = code, language = the
\* display name of the target language, isGenerated = TRUE and an empty
\* translation set, so that every further translate on the result fails with
\* not-translatable.
C16_TranslateResult ==
    /\ (lsTranslate # Null /\ ~lsTranslate.result.threw) =>
          LET receiver == lsTranslate.receiver
              code == lsTranslate.languageCode
              translated == lsTranslate.result.value
              mapping == IF receiver.isGenerated THEN lsList.generatedTranscripts
                         ELSE lsList.manuallyCreatedTranscripts
          IN  /\ lsFind.result.value = receiver
              /\ Get(mapping, receiver.languageCode) = receiver
              /\ translated.videoId = receiver.videoId
              /\ translated.url = <<receiver.url, "&tlang=", code>>
              /\ translated.languageCode = code
              /\ \E i \in 1..Len(receiver.translationLanguages) :
                    /\ receiver.translationLanguages[i].languageCode = code
                    /\ receiver.translationLanguages[i].language = translated.language
              /\ translated.isGenerated
              /\ translated.translationLanguages = <<>>
    /\ lsAgain # Null =>
          /\ lsAgain.result.threw
          /\ lsAgain.result.error.kind = "NotTranslatable"

(***************************************************************************)
(* Transcript.fetch (TrackSpec)                                            *)
(***************************************************************************)

\* C17: Transcript.fetch issues exactly one retrieval of the track's URL and
\* never retries it: whatever the retry budget of the proxy configuration, a
\* failure of that retrieval, a blocked response included, reaches the
\* caller as it is, and on success the FetchedTranscript carries the track's
\* videoId, language, languageCode and isGenerated.
C17_TrackFetchedOnce ==
    /\ tfGets <= 1
    /\ tfResult # Null =>
          LET t == tfInput.transcript
              response == tfResult.response
              delivered == tfResult.outcome
          IN  /\ tfGets = 1
              /\ response.threw =>
                    delivered.threw /\ delivered.error = response.error
              /\ ~response.threw =>
                    /\ ~delivered.threw
                    /\ delivered.value.videoId = t.videoId
                    /\ delivered.value.language = t.language
                    /\ delivered.value.languageCode = t.languageCode
                    /\ delivered.value.isGenerated = t.isGenerated
                    /\ Len(delivered.value.snippets) = Len(response.value)

\* the retrieval was rejected with status 429 under a proxy configuration
\* that allows retries, and fetch ended after its one GET
C17_Witness ==
    /\ tfResult # Null
    /\ proxyConfig # Null
    /\ retriesWhenBlocked(proxyConfig) >= 2
    /\ tfResult.response = Throw(TooManyRequests)
    /\ tfResult.outcome.threw
    /\ tfGets = 1

(***************************************************************************)
(* TranscriptParser (ParseSpec)                                            *)
(***************************************************************************)

\* C18: the parser's output consists of exactly the text elements that have
\* text content, in document order: an element with no text content
\* produces no snippet, and nothing is sorted, merged or deduplicated.
C18_OnlyElementsWithText ==
    psResult # Null =>
        LET HasText(element) == element.textContent # <<>>
            kept == SelectSeq(psInput.elements, HasText)
            snippets == psResult.value
            Literals == {<<"0">>, <<"1.5">>, <<"2.5">>}
            Value(a) == CASE a = <<"0">> -> 0
                          [] a = <<"1.5">> -> 1500
                          [] a = <<"2.5">> -> 2500
        IN  /\ Len(snippets) = Len(kept)
            /\ \A i \in 1..Len(kept) :
                 ("start" \in DOMAIN kept[i] /\ kept[i].start \in Literals) =>
                    snippets[i].start = [milli |-> Value(kept[i].start)]

\* C19: for every snippet text holding any number of markup tags, the parser
\* with preserveFormatting = FALSE removes all of them, and with
\* preserveFormatting = TRUE removes every tag that is not a formatting tag
\* (strong, em, b, i, mark, small, del, ins, sub, sup) and leaves the
\* formatting tags intact; the text outside the tags is unchanged.
C19_AllTagsStripped ==
    psResult # Null =>
        LET elements == psInput.elements
            snippets == psResult.value
            Tags == {"<i>", "</i>", "<span>", "<br/>"}
            Formatting == {"<i>", "</i>"}
            Stays(fragment) ==
                \/ fragment \notin Tags
                \/ psInput.preserveFormatting /\ fragment \in Formatting
        IN  Len(snippets) = Len(elements) =>
                \A i \in 1..Len(elements) :
                    snippets[i].text = SelectSeq(elements[i].textContent, Stays)

\* C20: every snippet has a numeric start and duration: the value of the
\* element's attribute when it is parsable, 0 when the attribute is absent
\* and 0 when it is present but unparsable; no snippet carries NaN.
C20_TimesNumeric ==
    psResult # Null =>
        LET elements == psInput.elements
            snippets == psResult.value
            Literals == {<<"0">>, <<"1.5">>}
            Value(a) == CASE a = <<"0">> -> 0
                          [] a = <<"1.5">> -> 1500
            Unparsable == {<<>>, <<"abc">>}
            Reads(number, element, name) ==
                /\ "nan" \notin DOMAIN number
                /\ name \notin DOMAIN element => number = [milli |-> 0]
                /\ (name \in DOMAIN element /\ element[name] \in Literals) =>
                      number = [milli |-> Value(element[name])]
                /\ (name \in DOMAIN element /\ element[name] \in Unparsable) =>
                      number = [milli |-> 0]
        IN  Len(snippets) = Len(elements) =>
                \A i \in 1..Len(elements) :
                    /\ Reads(snippets[i].start, elements[i], "start")
                    /\ Reads(snippets[i].duration, elements[i], "dur")

(***************************************************************************)
(* JsVarParser.parse (JsVarSpec)                                           *)
(***************************************************************************)

\* C21: for every valid JSON object embedded after the first occurrence of
\* "var ytInitialPlayerResponse", the extractor returns exactly that object,
\* the one that starts at the first "{" after the variable and ends where
\* the brace depth returns to zero, whatever the object's strings and the
\* rest of the page contain: braces, escaped quotes, or another occurrence
\* of the variable name.
C21_ExtractsEmbeddedObject ==
    (jvResult # Null /\ jvInput.embedded # Null) =>
        /\ ~jvResult.threw
        /\ jvResult.value = jvInput.embedded.value

\* C22: the extractor fails with data-unparsable carrying the video id, and
\* returns nothing, when the variable does not occur in the page, when no
\* "{" follows it, when the brace depth never returns to zero before the end
\* of the page, and when the delimited text is not valid JSON.
C22_UnparsableCases ==
    jvResult # Null =>
        LET s == jvInput.rawHtml
            Vars == {i \in 1..Len(s) : s[i] = "var ytInitialPlayerResponse"}
            v == CHOOSE i \in Vars : \A j \in Vars : i <= j
            Opens == {i \in (v + 1)..Len(s) : s[i] = "{"}
            b == CHOOSE i \in Opens : \A j \in Opens : i <= j
            \* piece k follows an odd number of backslashes
            Escaped(k) ==
                \E n \in 1..(k - b - 1) :
                    /\ n % 2 = 1
                    /\ \A m \in 1..n : s[k - m] = "\\"
                    /\ (k - n - 1 = b \/ s[k - n - 1] # "\\")
            Quote(k) == s[k] = "\"" /\ ~Escaped(k)
            InQuotes(k) == Cardinality({j \in (b + 1)..(k - 1) : Quote(j)}) % 2 = 1
            Counted(k, brace) == s[k] = brace /\ ~Escaped(k) /\ ~InQuotes(k)
            Depth(k) == 1 + Cardinality({j \in (b + 1)..k : Counted(j, "{")})
                          - Cardinality({j \in (b + 1)..k : Counted(j, "}")})
            Ends == {k \in (b + 1)..Len(s) : Counted(k, "}") /\ Depth(k) = 0}
            e == CHOOSE k \in Ends : \A j \in Ends : k <= j
            Fails ==
                /\ jvResult.threw
                /\ jvResult.error = [kind |-> "YouTubeDataUnparsable",
                                     videoId |-> <<"dQw4w9WgXcQ">>]
        IN  /\ Vars = {} => Fails
            /\ (Vars # {} /\ Opens = {}) => Fails
            /\ (Vars # {} /\ Opens # {} /\ Ends = {}) => Fails
            /\ (Vars # {} /\ Opens # {} /\ Ends # {}
                    /\ JSON_parse(SubSeq(s, b, e)).threw) => Fails

\* the braces after the variable balance around a text that is not JSON
C22_Witness ==
    /\ jvResult # Null
    /\ jvInput.rawHtml = <<"var ytInitialPlayerResponse", " = ", "{", "a", "}", ";">>
    /\ jvResult.threw

(***************************************************************************)
(* YouTubeTranscriptCli.run (CliSpec)                                      *)
(***************************************************************************)

\* C23 as stated: one run over video ids v1..vn processes the videos one
\* after another (at most one network operation in flight), a failure never
\* aborts the batch, every video id ends as exactly one entry of the
\* collected failures or of the collected results, and the output renders
\* all failures before any successful content.
C23_EveryVideoEndsAsOneEntry ==
    /\ cliInFlight <= 1
    /\ cliPc = "done" =>
          /\ Len(cliTranscripts) + Len(cliExceptions) = Len(cliArgs.videoIds)
          /\ ~cliOutput.threw
          /\ \A i \in 1..Len(cliOutput.value) :
                "exception" \in DOMAIN cliOutput.value[i] <=> i <= Len(cliExceptions)

\* C24: toRawData() on a transcript of N snippets returns N records in the
\* original order, record i holding exactly the text, start and duration of
\* snippet i; the call leaves the transcript's snippets and metadata as they
\* were; iterating the transcript yields the same snippets in the same order.
C24_ToRawDataKeepsSnippets ==
    /\ [](/\ fmRaw # Null =>
                /\ ~fmRaw.threw
                /\ Len(fmRaw.value) = Len(fmInput.snippets)
                /\ \A i \in 1..Len(fmInput.snippets) :
                    /\ DOMAIN fmRaw.value[i] = {"text", "start", "duration"}
                    /\ fmRaw.value[i].text = fmInput.snippets[i].text
                    /\ fmRaw.value[i].start = fmInput.snippets[i].start
                    /\ fmRaw.value[i].duration = fmInput.snippets[i].duration
          /\ fmIterated # Null =>
                /\ Len(fmIterated.value) = Len(fmInput.snippets)
                /\ \A i \in 1..Len(fmInput.snippets) :
                    fmIterated.value[i] = fmInput.snippets[i])
    /\ [][fmInput # Null => fmInput' = fmInput]_vars

C24_Witness ==
    /\ fmInput # Null
    /\ Len(fmInput.snippets) = MaxSnippets
    /\ fmInput.snippets[1].start.fifths > fmInput.snippets[2].start.fifths
    /\ fmInput.snippets[1].duration # fmInput.snippets[2].duration
    /\ fmRaw # Null
    /\ fmIterated # Null

\* C25: SRTFormatter renders snippet i (0-based) as the block numbered i + 1
\* whose time line is HH:MM:SS,mmm --> HH:MM:SS,mmm for the snippet's start
\* and, when the next snippet does not start earlier, start + duration; the
\* hour, minute and second fields have two digits, minutes and seconds are
\* in 0..59, and the millisecond field has exactly three digits, 000..999,
\* for every time that is not negative.
C25_SrtTimestampFields ==
    fmSrt # Null =>
        /\ ~fmSrt.threw
        /\ Len(fmSrt.value) = Len(fmInput.snippets)
        /\ \A i \in 1..Len(fmInput.snippets) :
            LET block == fmSrt.value[i]
                line == fmInput.snippets[i]
                end == line.start.fifths + line.duration.fifths
                cut == i < Len(fmInput.snippets)
                          /\ fmInput.snippets[i + 1].start.fifths < end
                MilliOf(ts) == ((ts.hours.value * 60 + ts.mins.value) * 60
                                  + ts.secs.value) * 1000 + ts.ms.value
                WellFormed(ts) ==
                    /\ ts.hours.digits = 2
                    /\ ts.mins.digits = 2
                    /\ ts.secs.digits = 2
                    /\ ts.ms.digits = 3
                    /\ ts.mins.value \in 0..59
                    /\ ts.secs.value \in 0..59
                    /\ ts.ms.value \in 0..999
                    /\ ts.separator = ","
            IN  /\ block.number = i
                /\ block.text = line.text
                /\ WellFormed(block.from)
                /\ WellFormed(block.to)
                /\ MilliOf(block.from) = (line.start.fifths + 2) \div 5
                /\ ~cut => MilliOf(block.to) = (end + 2) \div 5

(***************************************************************************)
(* Errors after construction (Spec)                                        *)
(***************************************************************************)

\* C26: no retrieval error is written after construction: on every path
\* through list discovery, the retry-exhausted one included, the error that
\* reaches the caller has the fields it had when its constructor returned
\* (the last error caught by fetchCaptionsJson).
C26_ErrorsNeverWritten ==
    (pc = "done" /\ outcome.threw) => outcome.error = caught[Len(caught)]

\* C26 amended: the one write to a constructed error is withProxyConfig on
\* the blocked error that ends the call; it sets proxyConfig to the
\* fetcher's configuration and leaves every other field; an error of any
\* other kind reaches the caller as constructed.
C26_OnlyProxyConfigWritten ==
    (pc = "done" /\ outcome.threw) =>
        LET constructed == caught[Len(caught)]
        IN  /\ DOMAIN outcome.error = DOMAIN constructed
            /\ \A field \in DOMAIN constructed \ {"proxyConfig"} :
                    outcome.error[field] = constructed[field]
            /\ "proxyConfig" \in DOMAIN constructed =>
                    /\ constructed.kind \in {"RequestBlocked", "IpBlocked"}
                    /\ constructed.proxyConfig = Null
                    /\ outcome.error.proxyConfig = proxyConfig

\* C26 witness: the retries of a Webshare configuration are exhausted and
\* the ip-blocked error, constructed without a configuration, reaches the
\* caller with the fetcher's.
C26_Witness ==
    /\ pc = "done"
    /\ proxyConfig = WebshareProxyConfig(MaxRetries)
    /\ attempts = MaxRetries
    /\ outcome.threw
    /\ caught[Len(caught)] = IpBlocked(videoId)
    /\ outcome.error.kind = "IpBlocked"
    /\ outcome.error.proxyConfig = proxyConfig

(***************************************************************************)
(* Messages of retrieval errors (RenderSpec)                               *)
(***************************************************************************)

\* C27: the message the user sees of every could-not-retrieve-transcript
\* error is built from its cause when it is rendered: it contains the watch
\* URL of the video and the cause text of the error's kind and payload
\* (reason and sub-reasons of video-unplayable, requested codes of
\* no-transcript-found), and for a blocked error annotated with a proxy
\* configuration after construction the proxy-specific cause.
C27_MessageBuiltAtRenderTime ==
    rnShown # Null =>
        LET e == rnError.value
            message == rnShown.value.message
            string == rnShown.value.string
        IN  /\ string.name = e.kind
            /\ string.message = message
            /\ Len(message) >= 2
            /\ message[1].video_url = <<"https://www.youtube.com/watch?v=">> \o e.videoId
            /\ LET shown == message[2].cause
               IN  CASE e.kind = "VideoUnplayable" ->
                        /\ shown.template = <<"VideoUnplayable", "CAUSE_MESSAGE">>
                        /\ shown.reason = IF "reason" \in DOMAIN e
                                          THEN e.reason
                                          ELSE <<"No reason specified!">>
                        /\ shown.sub_reasons = e.subReasons
                     [] e.kind = "NoTranscriptFound" ->
                        /\ shown.template = <<"NoTranscriptFound", "CAUSE_MESSAGE">>
                        /\ shown.requested_language_codes = e.requestedLanguageCodes
                        /\ shown.transcript_data = e.transcriptData
                     [] e.kind = "YouTubeRequestFailed" ->
                        /\ shown.template = <<"YouTubeRequestFailed", "CAUSE_MESSAGE">>
                        /\ shown.reason = e.reason
                     [] e.kind \in {"RequestBlocked", "IpBlocked"} ->
                        shown.template =
                            IF e.proxyConfig = Null
                            THEN <<e.kind, "CAUSE_MESSAGE">>
                            ELSE IF e.proxyConfig.type = "WebshareProxyConfig"
                            THEN <<"RequestBlocked", "WITH_WEBSHARE_PROXY_CAUSE_MESSAGE">>
                            ELSE <<"RequestBlocked", "WITH_GENERIC_PROXY_CAUSE_MESSAGE">>
                     [] OTHER -> shown.template = <<e.kind, "CAUSE_MESSAGE">>

(***************************************************************************)
(* Order of the steps of one discovery attempt (Spec)                      *)
(***************************************************************************)

\* C28: the steps of an attempt run in the order fetch (with the consent
\* handling), extract, classify availability, check caption tracks: a page
\* that still shows the consent interstitial never reaches extraction, a
\* page without a player response never reaches the classifier, a player
\* response that is not OK and has no caption tracks yields the playability
\* error and never transcripts-disabled, and TranscriptList.build runs only
\* after every earlier step succeeded.
C28_StepsInOrder ==
    (pc = "done" /\ html # Null) =>
        LET consent == CONSENT_FORM \in html.includes
            extracted == "ytInitialPlayerResponse" \in DOMAIN html
            videoData == html.ytInitialPlayerResponse
            notOk == /\ "playabilityStatus" \in DOMAIN videoData
                     /\ "status" \in DOMAIN videoData.playabilityStatus
                     /\ videoData.playabilityStatus.status # "OK"
            noTracks == ~(/\ "captions" \in DOMAIN videoData
                          /\ "captionTracks" \in DOMAIN videoData.captions)
        IN  /\ consent =>
                /\ outcome.threw
                /\ outcome.error.kind = "FailedToCreateConsentCookie"
            /\ (~consent /\ ~extracted) =>
                /\ outcome.threw
                /\ outcome.error.kind \in {"YouTubeDataUnparsable", "IpBlocked"}
            /\ (~consent /\ extracted /\ notOk) =>
                /\ outcome.threw
                /\ outcome.error.kind \in
                      {"RequestBlocked", "AgeRestricted", "VideoUnavailable",
                       "InvalidVideoId", "VideoUnplayable"}
            /\ (~consent /\ extracted /\ ~notOk /\ noTracks) =>
                /\ outcome.threw
                /\ outcome.error.kind = "TranscriptsDisabled"
            /\ ~outcome.threw =>
                /\ ~consent
                /\ extracted
                /\ ~notOk
                /\ ~noTracks
                /\ outcome.value.videoId = videoId

(***************************************************************************)
(* The consent cookie on the shared HTTP client (Spec)                     *)
(***************************************************************************)

\* C29: once an attempt has set the consent cookie header on the shared HTTP
\* client no step clears or resets it: it stays through later retries and
\* later videos of the same instance, and the only step that writes it is a
\* later consent interstitial, which replaces it by the cookie made from
\* that page.
C29_ConsentCookieKept ==
    [][cookie # <<>> =>
        \/ cookie' = cookie
        \/ /\ pc = "fetch1"
           /\ html' # Null
           /\ CONSENT_FORM \in html'.includes
           /\ "v" \in DOMAIN html'
           /\ cookie' = <<"CONSENT=YES+", html'.v>>]_vars

\* C29 witness: a later call on the instance, which met no consent page
\* itself, has ended and the header set by an earlier call is still there.
C29_Witness ==
    /\ pc = "done"
    /\ calls = MaxCalls
    /\ attempts = 1
    /\ fetches = 1
    /\ cookie = <<"CONSENT=YES+", "cb.20210328-17-p0.en+FX+471">>

(***************************************************************************)
(* Batches of videos (BatchSpec)                                           *)
(***************************************************************************)

\* C30: getTranscripts over distinct video ids processes them in the order
\* given, one at a time. With continueAfterError set every id is attempted
\* and ends in exactly one of the two results: a key of the data map iff its
\* fetch succeeded (holding the raw data of its transcript), an entry of the
\* unretrievable list iff it failed. Without it the first failure is
\* rethrown unchanged and no later id is fetched.
C30_BatchInOrder ==
    (btArgs # Null /\ \A i, j \in 1..Len(btArgs.videoIds) :
                            btArgs.videoIds[i] = btArgs.videoIds[j] => i = j) =>
        LET ids == btArgs.videoIds
            n == Len(btSettled)
            Failed(i) == btSettled[i].threw
            failures == {i \in 1..n : Failed(i)}
        IN  /\ Len(btAttempted) <= Len(ids)
            /\ \A i \in 1..Len(btAttempted) : btAttempted[i] = ids[i]
            /\ Len(btAttempted) - n \in {0, 1}
            /\ btPc = "fetch" <=> Len(btAttempted) = n + 1
            /\ btPc = "done" =>
                IF btArgs.continueAfterError
                THEN /\ ~btOutcome.threw
                     /\ n = Len(ids)
                     /\ DOMAIN btOutcome.value.data = {ids[i] : i \in (1..n) \ failures}
                     /\ \A i \in (1..n) \ failures :
                            LET raw == btOutcome.value.data[ids[i]]
                                snippets == btSettled[i].value.snippets
                            IN  /\ Len(raw) = Len(snippets)
                                /\ \A k \in 1..Len(raw) :
                                    /\ raw[k].text = snippets[k].text
                                    /\ raw[k].start = snippets[k].start
                                    /\ raw[k].duration = snippets[k].duration
                     /\ Len(btOutcome.value.unretrievableVideos) = Cardinality(failures)
                     /\ \A i \in 1..n :
                            Failed(i) <=>
                                \E k \in 1..Len(btOutcome.value.unretrievableVideos) :
                                    btOutcome.value.unretrievableVideos[k] = ids[i]
                     /\ \A k, l \in 1..Len(btOutcome.value.unretrievableVideos) :
                            k < l => \E i, j \in 1..n :
                                /\ i < j
                                /\ btOutcome.value.unretrievableVideos[k] = ids[i]
                                /\ btOutcome.value.unretrievableVideos[l] = ids[j]
                ELSE IF failures = {}
                THEN /\ ~btOutcome.threw
                     /\ n = Len(ids)
                     /\ DOMAIN btOutcome.value.data = {ids[i] : i \in 1..n}
                     /\ btOutcome.value.unretrievableVideos = <<>>
                ELSE /\ failures = {n}
                     /\ btOutcome.threw
                     /\ btOutcome.error = btSettled[n].error
                     /\ Len(btAttempted) = n

====
